---- MODULE Spec2Model ----
(***************************************************************************)
(* Model of the Excel concurrency gate of the evaluation server            *)
(* (acquireExcelLock / releaseExcelLock) and of the request handlers that  *)
(* go through it or around it: the single-phase fill (remplir-excel), the  *)
(* full regeneration (generer-excel-complet), the note_calculee read and   *)
(* the student deletion.                                                   *)
(*                                                                         *)
(* Node runs the handlers on one thread: a handler runs without            *)
(* interruption from one await to the next.  Each action below is one such *)
(* run-to-next-await segment of one request.                               *)
(*                                                                         *)
(* Time: acquireExcelLock reads the clock only in Date.now() - startTime   *)
(* and Date.now() - fileStartTime.  The model keeps these two differences  *)
(* (sinceStart, sinceFileStart) for every request inside acquire; Tick     *)
(* lets time pass for all of them.  A difference that is already above     *)
(* LOCK_TIMEOUT is not increased further: the code only compares it with   *)
(* LOCK_TIMEOUT.  inFileWait is a history field the code does not have:    *)
(* the time the request has spent in the second loop of acquire.           *)
(***************************************************************************)
EXTENDS Integers, Sequences, FiniteSets, TLC

VARIABLES
    excelLocks,             \* keys of the Map excelLocks (the stored value is never read)
    activeExcelOperations,  \* the global in-flight counter
    exportDir,              \* [filename -> BOOLEAN]: the output file exists in EXPORT_DIR
    session,                \* [client -> filenames of the students it works on]
    req,                    \* [client -> locals and position of its request]
    mapping,                \* the parsed mapping.json (loaded once at start)
    eleve,                  \* the student's entry of eleves.json
    modele,                 \* the template workbook MODELE_FILE
    classeur,               \* the student's workbook in EXPORT_DIR, or NoClasseur
    reponse,                \* the last answer of a document handler
    serveur,                \* position of startServer
    eleves,                 \* the parsed eleves.json: [id -> student entry]
    lockFile,               \* the parsed evaluation-lock.json: [juryId -> entry]
    horloge                 \* new Date(), in days

\* the state of the gate and of the requests that go through it
gate == <<excelLocks, activeExcelOperations, exportDir, session, req>>

\* the documents: configuration, student record, workbooks
documents == <<mapping, eleve, modele, classeur, reponse,
               serveur, eleves, lockFile, horloge>>

\* the state the document handlers of one student never write
annexes == <<serveur, eleves, lockFile, horloge>>

vars == <<excelLocks, activeExcelOperations, exportDir, session, req,
          mapping, eleve, modele, classeur, reponse,
          serveur, eleves, lockFile, horloge>>

----------------------------------------------------------------------------
(* Program constants *)

MAX_CONCURRENT_EXCEL_OPERATIONS == 4
LOCK_TIMEOUT == 30000

(* Bounds of the model *)

NReq == 2       \* clients of Spec
NFiles == 1     \* distinct output filenames of Spec
TickMs == 15000 \* granularity of the clock

\* the smallest population that saturates the gate: one client more than the cap
CapReqs == MAX_CONCURRENT_EXCEL_OPERATIONS + 1

Reqs == DOMAIN req
Files == DOMAIN exportDir

NoFile == 0     \* outputFileName = null

----------------------------------------------------------------------------
(* The gate: pure parts of acquireExcelLock and releaseExcelLock *)

\* while (activeExcelOperations >= MAX_CONCURRENT_EXCEL_OPERATIONS)
GlobalSaturated(active) == active >= MAX_CONCURRENT_EXCEL_OPERATIONS

\* while (excelLocks.get(filename))
FileLocked(locks, f) == f \in locks

\* if (Date.now() - startTime > LOCK_TIMEOUT), elapsed = Date.now() - startTime
TimedOutNever(elapsed) == FALSE
TimedOutAtLimit(elapsed) == elapsed >= LOCK_TIMEOUT
TimedOut(elapsed) == elapsed > LOCK_TIMEOUT

\* const fileStartTime = Date.now(): Date.now() - fileStartTime at that moment,
\* given Date.now() - startTime
SinceAcquireStart(sinceStart) == sinceStart
SinceFileStartAtEntry(sinceStart) == 0

\* activeExcelOperations++; excelLocks.set(filename, {...})
TakeLock(locks, active, f) ==
    [locks |-> locks \cup {f}, active |-> active + 1]

\* excelLocks.delete(filename); activeExcelOperations--; clamp at 0
ReleaseNoClamp(locks, active, f) ==
    [locks |-> locks \ {f}, active |-> active - 1]
ReleaseExcelLock(locks, active, f) ==
    [locks |-> locks \ {f},
     active |-> IF active - 1 < 0 THEN 0 ELSE active - 1]

----------------------------------------------------------------------------
(* Requests *)

\* no request of this client is running and no answer is on its way
Idle ==
    [pc |-> "idle", route |-> "none", outputFileName |-> NoFile,
     sinceStart |-> 0, sinceFileStart |-> 0, inFileWait |-> 0,
     result |-> "none", events |-> <<>>]

SetReq(r, rec) == req' = [req EXCEPT ![r] = rec]

SetGate(g) ==
    /\ excelLocks' = g.locks
    /\ activeExcelOperations' = g.active

\* res.json(...) / res.status(...).json(...): the handler answers and ends; its
\* locals are dead.  The answer travels to the client with ev, the trace of
\* the handler's gate and workbook events.
Answer(r, me, res, ev) ==
    SetReq(r, [Idle EXCEPT !.pc = "answered", !.result = res, !.events = ev])

\* catch (error) { if (outputFileName) releaseExcelLock(outputFileName); ... }
CatchKeepsGate(locks, active, f) ==
    [locks |-> locks, active |-> active]
HandlerCatch(locks, active, f) ==
    IF f # NoFile
    THEN ReleaseExcelLock(locks, active, f)
    ELSE [locks |-> locks, active |-> active]

\* an exception reaches the handler's catch block, which answers 500 with
\* the error's message
Throw(r, me, err) ==
    /\ SetGate(HandlerCatch(excelLocks, activeExcelOperations, me.outputFileName))
    /\ Answer(r, me, err, IF me.outputFileName # NoFile
                          THEN Append(me.events, "release") ELSE me.events)

\* second loop of acquireExcelLock, from its condition, then the two
\* assignments that take the lock; the caller goes on to load the workbook
AcquireFileLoop(r, me) ==
    IF FileLocked(excelLocks, me.outputFileName)
    THEN IF TimedOut(me.sinceFileStart)
         THEN Throw(r, me, "fileBusy")
         ELSE /\ SetReq(r, [me EXCEPT !.pc = "waitFile"])
              /\ UNCHANGED <<excelLocks, activeExcelOperations>>
    ELSE /\ SetGate(TakeLock(excelLocks, activeExcelOperations, me.outputFileName))
         /\ SetReq(r, [me EXCEPT !.pc = "loading", !.sinceStart = 0,
                                 !.sinceFileStart = 0, !.inFileWait = 0,
                                 !.events = Append(@, "acquire")])

\* first loop of acquireExcelLock, from its condition
AcquireGlobalLoop(r, me) ==
    IF GlobalSaturated(activeExcelOperations)
    THEN IF TimedOut(me.sinceStart)
         THEN Throw(r, me, "tooManyOps")
         ELSE /\ SetReq(r, [me EXCEPT !.pc = "waitGlobal"])
              /\ UNCHANGED <<excelLocks, activeExcelOperations>>
    ELSE AcquireFileLoop(r,
            [me EXCEPT !.sinceFileStart = SinceFileStartAtEntry(me.sinceStart)])

\* await acquireExcelLock(outputFileName): const startTime = Date.now()
AcquireExcelLock(r, me) ==
    AcquireGlobalLoop(r, [me EXCEPT !.sinceStart = 0])

----------------------------------------------------------------------------
(* POST /api/eleves/:id/remplir-excel *)

PreChecks == {"ok", "notFound", "noEval"}

\* from the request to the first test of the gate: student lookup, evaluation
\* lookup, fs.access of the output file, entry in acquireExcelLock
StartFill(r) ==
    /\ req[r].pc = "idle"
    /\ \E f \in session[r], pre \in PreChecks :
        LET me == [Idle EXCEPT !.route = "fill"] IN
        IF pre # "ok"
        THEN /\ Answer(r, me, pre, <<>>)
             /\ UNCHANGED <<excelLocks, activeExcelOperations>>
        ELSE IF ~exportDir[f]
        THEN /\ Answer(r, me, "noFile", <<>>)
             /\ UNCHANGED <<excelLocks, activeExcelOperations>>
        ELSE AcquireExcelLock(r, [me EXCEPT !.outputFileName = f])
    /\ UNCHANGED <<exportDir, session>>
    /\ UNCHANGED documents

(* POST /api/eleves/:id/generer-excel-complet *)

\* from the request to the first test of the gate: student lookup, mkdir,
\* entry in acquireExcelLock
StartRegen(r) ==
    /\ req[r].pc = "idle"
    /\ \E f \in session[r], found \in BOOLEAN :
        LET me == [Idle EXCEPT !.route = "regen"] IN
        IF ~found
        THEN /\ Answer(r, me, "notFound", <<>>)
             /\ UNCHANGED <<excelLocks, activeExcelOperations>>
        ELSE AcquireExcelLock(r, [me EXCEPT !.outputFileName = f])
    /\ UNCHANGED <<exportDir, session>>
    /\ UNCHANGED documents

(* the polling waits of acquireExcelLock: the sleep is over *)

PollGlobal(r) ==
    /\ req[r].pc = "waitGlobal"
    /\ AcquireGlobalLoop(r, req[r])
    /\ UNCHANGED <<exportDir, session>>
    /\ UNCHANGED documents

PollFile(r) ==
    /\ req[r].pc = "waitFile"
    /\ AcquireFileLoop(r, req[r])
    /\ UNCHANGED <<exportDir, session>>
    /\ UNCHANGED documents

\* what the load of the workbook and the two structural checks can give
LoadOutcomes(me) ==
    IF me.route = "fill"
    THEN IF exportDir[me.outputFileName]
         THEN {"ok", "loadError", "sheetNotFound", "mappingMissing"}
         ELSE {"loadError"}
    ELSE {"ok", "loadError"}

\* LoadDone with releaseExcelLock called before the save instead of after it
LoadDoneReleasesBeforeSave(r) ==
    /\ req[r].pc = "loading"
    /\ SetGate(ReleaseExcelLock(excelLocks, activeExcelOperations,
                                req[r].outputFileName))
    /\ SetReq(r, [req[r] EXCEPT !.pc = "saving",
                                !.events = @ \o <<"load", "fill", "release">>])
    /\ UNCHANGED <<exportDir, session>>
    /\ UNCHANGED documents

\* the lock is taken: XlsxPopulate.fromFileAsync resolves or rejects; on
\* success the handler checks the sheet and the mapping (fill), fills the
\* cells and starts workbook.toFileAsync
LoadDone(r) ==
    /\ req[r].pc = "loading"
    /\ \E out \in LoadOutcomes(req[r]) :
        LET me == req[r] IN
        CASE out = "ok" ->
               /\ SetReq(r, [me EXCEPT !.pc = "saving",
                                       !.events = @ \o <<"load", "fill">>])
               /\ UNCHANGED <<excelLocks, activeExcelOperations>>
          [] out = "loadError" ->
               Throw(r, [me EXCEPT !.events = Append(@, "loadFail")], out)
          [] OTHER ->
               \* return res.status(400)...: the handler ends inside the try block
               /\ Answer(r, me, out, Append(me.events, "load"))
               /\ UNCHANGED <<excelLocks, activeExcelOperations>>
    /\ UNCHANGED <<exportDir, session>>
    /\ UNCHANGED documents

\* workbook.toFileAsync resolves (then releaseExcelLock and the answer) or
\* rejects (then the catch block)
SaveDone(r) ==
    /\ req[r].pc = "saving"
    /\ \E ok \in BOOLEAN :
        LET me == req[r] IN
        IF ok
        THEN /\ exportDir' = [exportDir EXCEPT ![me.outputFileName] = TRUE]
             /\ SetGate(ReleaseExcelLock(excelLocks, activeExcelOperations,
                                         me.outputFileName))
             /\ Answer(r, me, "ok", me.events \o <<"saveOk", "release">>)
        ELSE /\ UNCHANGED exportDir
             /\ Throw(r, [me EXCEPT !.events = Append(@, "saveFail")], "saveError")
    /\ UNCHANGED session
    /\ UNCHANGED documents

(* GET /api/eleves/:id/note-calculee/:semestre *)

StartNote(r) ==
    /\ req[r].pc = "idle"
    /\ \E f \in session[r], found \in BOOLEAN, configured \in BOOLEAN :
        LET me == [Idle EXCEPT !.route = "note"] IN
        IF ~found
        THEN Answer(r, me, "notFound", <<>>)
        ELSE IF ~exportDir[f] \/ ~configured
        THEN Answer(r, me, "null", <<>>)
        ELSE SetReq(r, [me EXCEPT !.pc = "noteLoading", !.outputFileName = f])
    /\ UNCHANGED <<excelLocks, activeExcelOperations, exportDir, session>>
    /\ UNCHANGED documents

NoteLoadDone(r) ==
    /\ req[r].pc = "noteLoading"
    /\ \E out \in {"note", "null", "readError"} :
        /\ ~exportDir[req[r].outputFileName] => out = "readError"
        /\ Answer(r, req[r], out, <<"load">>)
    /\ UNCHANGED <<excelLocks, activeExcelOperations, exportDir, session>>
    /\ UNCHANGED documents

(* DELETE /api/eleves/:id *)

StartDelete(r) ==
    /\ req[r].pc = "idle"
    /\ \E f \in session[r], found \in BOOLEAN :
        LET me == [Idle EXCEPT !.route = "delete"] IN
        IF ~found
        THEN Answer(r, me, "notFound", <<>>)
        ELSE SetReq(r, [me EXCEPT !.pc = "unlinking", !.outputFileName = f])
    /\ UNCHANGED <<excelLocks, activeExcelOperations, exportDir, session>>
    /\ UNCHANGED documents

UnlinkDone(r) ==
    /\ req[r].pc = "unlinking"
    /\ exportDir' = [exportDir EXCEPT ![req[r].outputFileName] = FALSE]
    /\ Answer(r, req[r], "deleted", <<"unlink">>)
    /\ UNCHANGED <<excelLocks, activeExcelOperations, session>>
    /\ UNCHANGED documents

(* the client *)

\* the answer reaches the client, which may then send its next request
ClientReceives(r) ==
    /\ req[r].pc = "answered"
    /\ SetReq(r, Idle)
    /\ UNCHANGED <<excelLocks, activeExcelOperations, exportDir, session>>
    /\ UNCHANGED documents

(* the clock *)

Waiting(r) == req[r].pc \in {"waitGlobal", "waitFile"}

Older(elapsed) == IF elapsed > LOCK_TIMEOUT THEN elapsed ELSE elapsed + TickMs

\* TickMs pass: every request inside acquireExcelLock sees a later Date.now()
Tick ==
    /\ \E r \in Reqs : Waiting(r)
    /\ req' = [r \in Reqs |->
                IF Waiting(r)
                THEN [req[r] EXCEPT
                        !.sinceStart = Older(@),
                        !.sinceFileStart =
                            IF req[r].pc = "waitFile" THEN Older(@) ELSE @,
                        !.inFileWait =
                            IF req[r].pc = "waitFile" THEN Older(@) ELSE @]
                ELSE req[r]]
    /\ UNCHANGED <<excelLocks, activeExcelOperations, exportDir, session>>
    /\ UNCHANGED documents

----------------------------------------------------------------------------
(* JavaScript values, as the handlers test and convert them *)

Val(k, s, n) == [k |-> k, s |-> s, n |-> n]

Undefined == Val("undefined", "", 0)    \* also what an empty cell reads as
Null == Val("null", "", 0)
NaN == Val("NaN", "", 0)
Str(s) == Val("string", s, 0)
Num(n) == Val("number", "", n)

\* if (v), v || w
Truthy(v) ==
    CASE v.k = "string" -> v.s # ""
      [] v.k = "number" -> v.n # 0
      [] OTHER -> FALSE

\* parseFloat(v), parseInt(v): a number stays, null, undefined and a text
\* without digits give NaN
ParseFloat(v) == IF v.k = "number" THEN v ELSE NaN
ParseInt(v) == IF v.k = "number" THEN v ELSE NaN

\* parseFloat(v) || 0
ParseFloatOrZero(v) == IF Truthy(ParseFloat(v)) THEN ParseFloat(v) ELSE Num(0)

----------------------------------------------------------------------------
(* Workbooks *)

\* A sheet is a function from cell addresses <<column, row>> to values; a
\* workbook is a function from sheet names to sheets.

NLignes == 2    \* rows of a sheet that criteria can use

Lettres == {"A", "C", "D", "E", "F", "G"}
LigneChamps == NLignes + 1      \* the row of the comment, bonus and score cells
Adresses == Lettres \X (1..LigneChamps)

NoClasseur == <<>>  \* no file in EXPORT_DIR: a workbook has at least one sheet

\* sheet.cell(address) throws for an address outside the sheet (row 0)
CellExists(sheet, a) == a \in DOMAIN sheet

\* try { sheet.cell(address).value(v) } catch (err) { ... }
WriteCell(sheet, a, v) ==
    IF CellExists(sheet, a) THEN [sheet EXCEPT ![a] = v] ELSE sheet

----------------------------------------------------------------------------
(* The cell-fill pass of POST /api/eleves/:id/remplir-excel *)

\* mapping:  [niveaux: level 1..4 -> column letter,
\*            sheetNames: sheet key -> sheet name,
\*            evaluations: phase -> criteria <<[id, ligne], ...>> of its
\*                         competences, in the order of Object.keys,
\*            commentaires: phase -> address (commentaire_global),
\*            champs_supplementaires: phase -> (field -> address),
\*            identite: sheet key -> address]
\*           a key that mapping.json does not have is outside the DOMAIN
\* evalData: [criteres: criterion id -> niveau, commentaireGeneral, bonus,
\*            note_finale]

\* const colonnes = ['C', 'D', 'E', 'F']
colonnes == {"C", "D", "E", "F"}

\* value === 'x' || value === 'X'
IsMark(v) == v = Str("x") \/ v = Str("X")

\* the clear pass: every cell of colonnes in the row of a criterion
ClearMarks(sheet, criteres) ==
    [a \in DOMAIN sheet |->
        IF /\ a[1] \in colonnes
           /\ \E i \in DOMAIN criteres : criteres[i].ligne = a[2]
           /\ IsMark(sheet[a])
        THEN Undefined
        ELSE sheet[a]]

\* switch (niveau): the column of the mark, "" for default: continue
ColonneDuNiveau(niveau) ==
    CASE niveau.k = "number" /\ niveau.n \in {0, 1} -> mapping.niveaux[1]
      [] niveau.k = "number" /\ niveau.n = 2 -> mapping.niveaux[2]
      [] niveau.k = "number" /\ niveau.n = 3 -> mapping.niveaux[3]
      [] niveau.k = "number" /\ niveau.n = 4 -> mapping.niveaux[4]
      [] OTHER -> ""

\* critereData && critereData.niveau !== null && critereData.niveau !== undefined
HasNiveau(evalData, id) ==
    /\ id \in DOMAIN evalData.criteres
    /\ evalData.criteres[id].k \notin {"null", "undefined"}

\* the body of the mark loop for one criterion
MarkCritere(sheet, critere, evalData) ==
    IF ~HasNiveau(evalData, critere.id)
    THEN sheet
    ELSE LET colonne == ColonneDuNiveau(ParseInt(evalData.criteres[critere.id]))
         IN  IF colonne = ""
             THEN sheet
             ELSE WriteCell(sheet, <<colonne, critere.ligne>>, Str("x"))

\* the mark pass, criterion after criterion
RECURSIVE MarkPassStopsAtFailure(_, _, _)
MarkPassStopsAtFailure(sheet, criteres, evalData) ==
    IF criteres = <<>>
    THEN sheet
    ELSE IF HasNiveau(evalData, Head(criteres).id)
            /\ ~CellExists(sheet, <<"C", Head(criteres).ligne>>)
    THEN sheet
    ELSE MarkPassStopsAtFailure(MarkCritere(sheet, Head(criteres), evalData),
                                Tail(criteres), evalData)
RECURSIVE MarkPass(_, _, _)
MarkPass(sheet, criteres, evalData) ==
    IF criteres = <<>>
    THEN sheet
    ELSE MarkPass(MarkCritere(sheet, Head(criteres), evalData),
                  Tail(criteres), evalData)

\* the general comment
CommentAppends(sheet, semestre, evalData) ==
    IF /\ semestre \in DOMAIN mapping.commentaires
       /\ Truthy(evalData.commentaireGeneral)
    THEN LET a == mapping.commentaires[semestre]
             old == IF CellExists(sheet, a) /\ sheet[a].k = "string"
                    THEN sheet[a].s ELSE ""
         IN  WriteCell(sheet, a, Str(old \o evalData.commentaireGeneral.s))
    ELSE sheet
FillComment(sheet, semestre, evalData) ==
    IF /\ semestre \in DOMAIN mapping.commentaires
       /\ Truthy(evalData.commentaireGeneral)
    THEN WriteCell(sheet, mapping.commentaires[semestre],
                   evalData.commentaireGeneral)
    ELSE sheet

\* champs supplementaires: the bonus
FillBonus(sheet, semestre, evalData) ==
    IF /\ semestre \in DOMAIN mapping.champs_supplementaires
       /\ "bonus" \in DOMAIN mapping.champs_supplementaires[semestre]
       /\ evalData.bonus # Undefined
    THEN WriteCell(sheet, mapping.champs_supplementaires[semestre]["bonus"],
                   ParseFloatOrZero(evalData.bonus))
    ELSE sheet

\* champs supplementaires: the final score
FillNoteFinale(sheet, semestre, evalData) ==
    IF /\ semestre \in DOMAIN mapping.champs_supplementaires
       /\ "note_finale" \in DOMAIN mapping.champs_supplementaires[semestre]
       /\ evalData.note_finale # Undefined
       /\ evalData.note_finale # Null
    THEN WriteCell(sheet, mapping.champs_supplementaires[semestre]["note_finale"],
                   ParseFloat(evalData.note_finale))
    ELSE sheet

\* the whole pass on the sheet of the phase, for the criteria criteres:
\* clear, mark, comment, fields
RemplirCriteres(sheet, criteres, semestre, evalData) ==
    LET cleared == ClearMarks(sheet, criteres)
        marked == MarkPass(cleared, criteres, evalData)
        commented == FillComment(marked, semestre, evalData)
        withBonus == FillBonus(commented, semestre, evalData)
    IN  FillNoteFinale(withBonus, semestre, evalData)

\* const semestreCompetences = mapping.evaluations[semestre].competences
RemplirFeuille(sheet, semestre, evalData) ==
    RemplirCriteres(sheet, mapping.evaluations[semestre], semestre, evalData)

----------------------------------------------------------------------------
(* The passes of POST /api/eleves/:id/generer-excel-complet *)

\* const sheets = [...] of step 2 and const semestres = [...] of step 3
semestres == <<"stage", "revue1", "revue2", "revue3", "soutenance">>
RecapKey == "recap"

\* the cells of the summary sheet that step 4 writes: F28, C34, B37 and the
\* first jury member's cell
RecapNoteStage == <<"F", 1>>
RecapNoteProposee == <<"C", 1>>
RecapCommentaires == <<"D", 1>>
RecapJury == <<"E", 1>>

\* sheet.cell(a).value(v) on the sheet called name, if the workbook has it
WriteSheet(workbook, name, a, v) ==
    IF name \in DOMAIN workbook
    THEN [workbook EXCEPT ![name] = WriteCell(@, a, v)]
    ELSE workbook

\* step 2: the identity field nom in every sheet that the mapping gives a
\* cell for (the other fields go through the same loop)
IdentitePass(workbook) ==
    [name \in DOMAIN workbook |->
        IF \E key \in DOMAIN mapping.identite :
                key \in DOMAIN mapping.sheetNames
                /\ mapping.sheetNames[key] = name
        THEN LET key == CHOOSE k \in DOMAIN mapping.identite :
                            k \in DOMAIN mapping.sheetNames
                            /\ mapping.sheetNames[k] = name
             IN  WriteCell(workbook[name], mapping.identite[key], eleve.nom)
        ELSE workbook[name]]

\* step 2.5: the placeholder 20xx of the title cell of the phase sheets
\* becomes the session; the summary sheet gets its session cell
CelluleSession == <<"E", NLignes + 1>>
SessionPass(workbook) ==
    [name \in DOMAIN workbook |->
        IF name = RecapKey
        THEN WriteCell(workbook[name], CelluleSession, Str("SESSION 2026"))
        ELSE IF workbook[name][CelluleSession] = Str("SESSION 20xx")
        THEN WriteCell(workbook[name], CelluleSession, Str("SESSION 2026"))
        ELSE workbook[name]]

\* step 3, clear pass
RegenClearMarks(sheet, criteres) ==
    [a \in DOMAIN sheet |->
        IF /\ a[1] \in colonnes
           /\ \E i \in DOMAIN criteres : criteres[i].ligne = a[2]
           /\ IsMark(sheet[a])
        THEN Undefined
        ELSE sheet[a]]

\* step 3, switch (niveau)
RegenColonneDuNiveau(niveau) ==
    CASE niveau.k = "number" /\ niveau.n \in {0, 1} -> mapping.niveaux[1]
      [] niveau.k = "number" /\ niveau.n = 2 -> mapping.niveaux[2]
      [] niveau.k = "number" /\ niveau.n = 3 -> mapping.niveaux[3]
      [] niveau.k = "number" /\ niveau.n = 4 -> mapping.niveaux[4]
      [] OTHER -> ""

\* step 3, the body of the mark loop for one criterion
RegenMarkCritere(sheet, critere, evalData) ==
    IF ~HasNiveau(evalData, critere.id)
    THEN sheet
    ELSE LET colonne == RegenColonneDuNiveau(ParseInt(evalData.criteres[critere.id]))
         IN  IF colonne = ""
             THEN sheet
             ELSE WriteCell(sheet, <<colonne, critere.ligne>>, Str("x"))

RECURSIVE RegenMarkPass(_, _, _)
RegenMarkPass(sheet, criteres, evalData) ==
    IF criteres = <<>>
    THEN sheet
    ELSE RegenMarkPass(RegenMarkCritere(sheet, Head(criteres), evalData),
                       Tail(criteres), evalData)

\* step 3, comment, bonus and final score
RegenChampsSkipsBonus(sheet, semestre, evalData) ==
    FillNoteFinale(FillComment(sheet, semestre, evalData), semestre, evalData)
RegenChamps(sheet, semestre, evalData) ==
    LET commented ==
            IF /\ semestre \in DOMAIN mapping.commentaires
               /\ Truthy(evalData.commentaireGeneral)
            THEN WriteCell(sheet, mapping.commentaires[semestre],
                           evalData.commentaireGeneral)
            ELSE sheet
        champsSupp == mapping.champs_supplementaires
        withBonus ==
            IF /\ semestre \in DOMAIN champsSupp
               /\ "bonus" \in DOMAIN champsSupp[semestre]
               /\ evalData.bonus # Undefined
            THEN WriteCell(commented, champsSupp[semestre]["bonus"],
                           ParseFloatOrZero(evalData.bonus))
            ELSE commented
    IN  IF /\ semestre \in DOMAIN champsSupp
           /\ "note_finale" \in DOMAIN champsSupp[semestre]
           /\ evalData.note_finale # Undefined
           /\ evalData.note_finale # Null
        THEN WriteCell(withBonus, champsSupp[semestre]["note_finale"],
                       ParseFloat(evalData.note_finale))
        ELSE withBonus

\* step 3 for one phase: skipped without data, without mapping or without
\* the sheet
RegenSemestre(workbook, semestre) ==
    IF \/ semestre \notin DOMAIN eleve.evaluations
       \/ semestre \notin DOMAIN mapping.evaluations
       \/ semestre \notin DOMAIN mapping.sheetNames
       \/ mapping.sheetNames[semestre] \notin DOMAIN workbook
    THEN workbook
    ELSE LET name == mapping.sheetNames[semestre]
             evalData == eleve.evaluations[semestre]
             criteres == mapping.evaluations[semestre]
             cleared == RegenClearMarks(workbook[name], criteres)
             marked == RegenMarkPass(cleared, criteres, evalData)
         IN  [workbook EXCEPT ![name] = RegenChamps(marked, semestre, evalData)]

\* step 3: the phases in the order of semestres
RECURSIVE RegenEvaluations(_, _)
RegenEvaluations(workbook, phases) ==
    IF phases = <<>>
    THEN workbook
    ELSE RegenEvaluations(RegenSemestre(workbook, Head(phases)), Tail(phases))

\* step 4: the summary sheet
RecapPass(workbook) ==
    IF mapping.sheetNames[RecapKey] \notin DOMAIN workbook
    THEN workbook
    ELSE LET name == mapping.sheetNames[RecapKey]
             w1 == IF "stage" \in DOMAIN eleve.evaluations
                      /\ Truthy(eleve.evaluations["stage"].note_finale)
                   THEN WriteSheet(workbook, name, RecapNoteStage,
                            ParseFloat(eleve.evaluations["stage"].note_finale))
                   ELSE workbook
             w2 == IF Truthy(eleve.note_proposee)
                   THEN WriteSheet(w1, name, RecapNoteProposee,
                                   ParseFloat(eleve.note_proposee))
                   ELSE w1
             w3 == IF Truthy(eleve.commentaires)
                   THEN WriteSheet(w2, name, RecapCommentaires, eleve.commentaires)
                   ELSE w2
         IN  IF Truthy(eleve.jury)
             THEN WriteSheet(w3, name, RecapJury, eleve.jury)
             ELSE w3

\* steps 2 to 4 on the template
RegenContent ==
    RecapPass(RegenEvaluations(SessionPass(IdentitePass(modele)), semestres))

----------------------------------------------------------------------------
(* The document handlers, one request at a time *)

\* With a single client no request runs between two awaits of another: each
\* action below is a whole handler, from the request to the answer, for a
\* request about the one student of eleves.json.  A handler that finds its
\* filename locked waits until its timeout, since no other request is there
\* to release.

\* `${eleve.nom}_${eleve.prenom}_Evaluation.xlsx` of the one student
OutputFileName == 1

IoOutcomes == {"ok", "loadError", "saveError"}

Repond(route, semestre, status, erreur) ==
    reponse' = [route |-> route, semestre |-> semestre,
                status |-> status, erreur |-> erreur]

\* return res.status(...).json(...) before acquireExcelLock
RefuseCreatesFile(route, semestre, status, erreur) ==
    /\ Repond(route, semestre, status, erreur)
    /\ classeur' = modele
    /\ UNCHANGED <<excelLocks, activeExcelOperations>>
Refuse(route, semestre, status, erreur) ==
    /\ Repond(route, semestre, status, erreur)
    /\ UNCHANGED <<classeur, excelLocks, activeExcelOperations>>

(* POST /api/eleves/:id/evaluations *)

SaveEvaluation(semestre, data) ==
    /\ eleve' = [eleve EXCEPT !.evaluations = (semestre :> data) @@ @]
    /\ Repond("evaluations", semestre, 200, "")
    /\ UNCHANGED <<mapping, modele, classeur>>
    /\ UNCHANGED gate
    /\ UNCHANGED annexes

(* POST /api/eleves/:id/remplir-excel *)

RemplirExcel(semestre, io) ==
    LET route == "remplir-excel"
        taken == TakeLock(excelLocks, activeExcelOperations, OutputFileName)
        caught(g) == HandlerCatch(g.locks, g.active, OutputFileName)
        name == mapping.sheetNames[semestre]
    IN
    /\ IF semestre \notin DOMAIN eleve.evaluations
       THEN Refuse(route, semestre, 400, "noEval")
       ELSE IF classeur = NoClasseur
       THEN Refuse(route, semestre, 404, "noFile")
       ELSE IF FileLocked(excelLocks, OutputFileName)
       THEN /\ Repond(route, semestre, 500, "fileBusy")
            /\ SetGate(caught([locks |-> excelLocks,
                               active |-> activeExcelOperations]))
            /\ UNCHANGED classeur
       ELSE IF io = "loadError"
       THEN /\ Repond(route, semestre, 500, io)
            /\ SetGate(caught(taken))
            /\ UNCHANGED classeur
       ELSE IF name \notin DOMAIN classeur
       THEN /\ Repond(route, semestre, 400, "sheetNotFound")
            /\ SetGate(taken)
            /\ UNCHANGED classeur
       ELSE IF semestre \notin DOMAIN mapping.evaluations
       THEN /\ Repond(route, semestre, 400, "mappingMissing")
            /\ SetGate(taken)
            /\ UNCHANGED classeur
       ELSE IF io = "saveError"
       THEN /\ Repond(route, semestre, 500, io)
            /\ SetGate(caught(taken))
            /\ UNCHANGED classeur
       ELSE /\ classeur' = [classeur EXCEPT ![name] =
                    RemplirFeuille(@, semestre, eleve.evaluations[semestre])]
            /\ SetGate(ReleaseExcelLock(taken.locks, taken.active, OutputFileName))
            /\ Repond(route, semestre, 200, "")
    /\ UNCHANGED <<mapping, eleve, modele, exportDir, session, req>>
    /\ UNCHANGED annexes

(* POST /api/eleves/:id/generer-excel-complet *)

GenererExcelComplet(io) ==
    LET route == "generer-excel-complet"
        taken == TakeLock(excelLocks, activeExcelOperations, OutputFileName)
        caught(g) == HandlerCatch(g.locks, g.active, OutputFileName)
    IN
    /\ IF FileLocked(excelLocks, OutputFileName)
       THEN /\ Repond(route, "", 500, "fileBusy")
            /\ SetGate(caught([locks |-> excelLocks,
                               active |-> activeExcelOperations]))
            /\ UNCHANGED classeur
       ELSE IF io # "ok"
       THEN /\ Repond(route, "", 500, io)
            /\ SetGate(caught(taken))
            /\ UNCHANGED classeur
       ELSE /\ classeur' = RegenContent
            /\ SetGate(ReleaseExcelLock(taken.locks, taken.active, OutputFileName))
            /\ Repond(route, "", 200, "")
    /\ UNCHANGED <<mapping, eleve, modele, exportDir, session, req>>
    /\ UNCHANGED annexes

----------------------------------------------------------------------------
(* GET /api/eleves/:id/note-calculee/:semestre: the calculator *)

\* Numbers that are not integers are kept as fractions [num, den], den > 0.

\* c === 'x' ... f === 'x': the value of the first level column with the
\* mark, "null" without one
ValeurLigne(sheet, ligne) ==
    IF sheet[<<"C", ligne>>] = Str("x") THEN Num(0)
    ELSE IF sheet[<<"D", ligne>>] = Str("x") THEN Num(1)
    ELSE IF sheet[<<"E", ligne>>] = Str("x") THEN Num(2)
    ELSE IF sheet[<<"F", ligne>>] = Str("x") THEN Num(3)
    ELSE Null

\* sheet.cell(a).value() || 0, for a cell that is empty or holds a number
ValueOrZero(sheet, a) == IF Truthy(sheet[a]) THEN sheet[a].n ELSE 0

\* the for loop of calculerMoyenneCompetence: [somme, count] after lignes
RECURSIVE SommeCount(_, _, _)
SommeCount(sheet, lignes, acc) ==
    IF lignes = <<>>
    THEN acc
    ELSE LET ligne == Head(lignes)
             a == ValueOrZero(sheet, <<"A", ligne>>)
             valeur == ValeurLigne(sheet, ligne)
         IN  SommeCount(sheet, Tail(lignes),
                IF valeur # Null /\ a > 0
                THEN [somme |-> acc.somme + valeur.n * a, count |-> acc.count + a]
                ELSE acc)

\* return count > 0 ? somme / count : 0
MoyenneOfAllRows(sheet, lignes) ==
    LET r == SommeCount(sheet, lignes, [somme |-> 0, count |-> 0])
    IN  IF Len(lignes) > 0 THEN [num |-> r.somme, den |-> Len(lignes)]
        ELSE [num |-> 0, den |-> 1]
CalculerMoyenneCompetence(sheet, lignes) ==
    LET r == SommeCount(sheet, lignes, [somme |-> 0, count |-> 0])
    IN  IF r.count > 0 THEN [num |-> r.somme, den |-> r.count]
        ELSE [num |-> 0, den |-> 1]

Groupes == <<"c01", "c03", "c08", "c10">>

\* lignesConfig: the rows of each group and the cell of its weight; a group
\* that is null for the phase is outside the DOMAIN
LignesConfigSansRevue1(semestre) ==
    IF semestre = "stage"
    THEN [lignes |-> [g \in {"c01", "c03", "c08", "c10"} |->
                        CASE g = "c01" -> <<21, 22, 23, 24, 26>>
                          [] g = "c03" -> <<33, 34, 35, 36, 38>>
                          [] g = "c08" -> <<45, 46, 47, 49>>
                          [] g = "c10" -> <<56, 57, 58, 59, 61>>],
          poids |-> [g \in {"c01", "c03", "c08", "c10"} |->
                        CASE g = "c01" -> <<"A", 19>>
                          [] g = "c03" -> <<"A", 31>>
                          [] g = "c08" -> <<"A", 43>>
                          [] g = "c10" -> <<"A", 54>>]]
    ELSE [lignes |-> [g \in {"c01", "c03", "c08", "c10"} |->
                        CASE g = "c01" -> <<20, 21, 22, 23, 25>>
                          [] g = "c03" -> <<32, 33, 34, 35, 37>>
                          [] g = "c08" -> <<44, 45, 46, 47, 49>>
                          [] g = "c10" -> <<56, 57, 58, 59, 61>>],
          poids |-> [g \in {"c01", "c03", "c08", "c10"} |->
                        CASE g = "c01" -> <<"A", 18>>
                          [] g = "c03" -> <<"A", 30>>
                          [] g = "c08" -> <<"A", 42>>
                          [] g = "c10" -> <<"A", 54>>]]
LignesConfig(semestre) ==
    IF semestre = "stage"
    THEN [lignes |-> [g \in {"c01", "c03", "c08", "c10"} |->
                        CASE g = "c01" -> <<21, 22, 23, 24, 26>>
                          [] g = "c03" -> <<33, 34, 35, 36, 38>>
                          [] g = "c08" -> <<45, 46, 47, 49>>
                          [] g = "c10" -> <<56, 57, 58, 59, 61>>],
          poids |-> [g \in {"c01", "c03", "c08", "c10"} |->
                        CASE g = "c01" -> <<"A", 19>>
                          [] g = "c03" -> <<"A", 31>>
                          [] g = "c08" -> <<"A", 43>>
                          [] g = "c10" -> <<"A", 54>>]]
    ELSE IF semestre = "revue1"
    THEN [lignes |-> [g \in {"c01", "c03"} |->
                        CASE g = "c01" -> <<20, 21, 22, 23, 25>>
                          [] g = "c03" -> <<32, 33, 34, 35, 37>>],
          poids |-> [g \in {"c01", "c03"} |->
                        CASE g = "c01" -> <<"A", 18>>
                          [] g = "c03" -> <<"A", 30>>]]
    ELSE [lignes |-> [g \in {"c01", "c03", "c08", "c10"} |->
                        CASE g = "c01" -> <<20, 21, 22, 23, 25>>
                          [] g = "c03" -> <<32, 33, 34, 35, 37>>
                          [] g = "c08" -> <<44, 45, 46, 47, 49>>
                          [] g = "c10" -> <<56, 57, 58, 59, 61>>],
          poids |-> [g \in {"c01", "c03", "c08", "c10"} |->
                        CASE g = "c01" -> <<"A", 18>>
                          [] g = "c03" -> <<"A", 30>>
                          [] g = "c08" -> <<"A", 42>>
                          [] g = "c10" -> <<"A", 54>>]]

CelluleBonusCalcul == <<"C", 63>>

\* moyenneC01 * poidsC01 + ... over the groups gs, as a fraction
RECURSIVE SommePonderee(_, _, _)
SommePonderee(sheet, config, gs) ==
    IF gs = <<>>
    THEN [num |-> 0, den |-> 1]
    ELSE LET g == Head(gs)
             rest == SommePonderee(sheet, config, Tail(gs))
         IN  IF g \in DOMAIN config.lignes
             THEN LET m == CalculerMoyenneCompetence(sheet, config.lignes[g])
                      p == ValueOrZero(sheet, config.poids[g])
                  IN  [num |-> m.num * p * rest.den + rest.num * m.den,
                       den |-> m.den * rest.den]
             ELSE rest

\* Math.round(x): the integer nearest to the fraction x, halves upwards
MathTrunc(x) == x.num \div x.den
MathRound(x) == (2 * x.num + x.den) \div (2 * x.den)

\* a number given in hundredths
Centiemes(n) == Val("centiemes", "", n)

\* (...) * 20 / 3 + bonus, then Math.round(noteCalculee * 100) / 100
CalculerNote(sheet, semestre) ==
    LET t == SommePonderee(sheet, LignesConfig(semestre), Groupes)
        bonus == ValueOrZero(sheet, CelluleBonusCalcul)
        x100 == [num |-> t.num * 2000 + bonus * 300 * t.den, den |-> 3 * t.den]
    IN  Centiemes(MathRound(x100))

SemestresCalcul ==
    {"stage", "revue1", "revue2", "revue3", "soutenance"}

\* the whole handler, for the one student
NoteCalculee(semestre, io) ==
    LET route == "note-calculee"
        champsSupp == mapping.champs_supplementaires
        answer(status, erreur, v) ==
            reponse' = [route |-> route, semestre |-> semestre,
                        status |-> status, erreur |-> erreur, note_calculee |-> v]
    IN
    /\ IF classeur = NoClasseur
       THEN answer(200, "", Null)
       ELSE IF \/ semestre \notin DOMAIN champsSupp
               \/ "note_calculee" \notin DOMAIN champsSupp[semestre]
       THEN answer(200, "", Null)
       ELSE IF io = "loadError"
       THEN answer(500, "readError", Undefined)
       ELSE IF \/ semestre \notin DOMAIN mapping.sheetNames
               \/ mapping.sheetNames[semestre] \notin DOMAIN classeur
       THEN answer(200, "", Null)
       ELSE LET sheet == classeur[mapping.sheetNames[semestre]]
                stored == sheet[champsSupp[semestre]["note_calculee"]]
            IN  IF stored # Undefined
                THEN answer(200, "", stored)
                ELSE IF semestre \in SemestresCalcul
                THEN answer(200, "", CalculerNote(sheet, semestre))
                ELSE answer(200, "", Undefined)
    /\ UNCHANGED <<mapping, eleve, modele, classeur>>
    /\ UNCHANGED gate
    /\ UNCHANGED annexes

----------------------------------------------------------------------------
(* remplir-excel step by step: the student is loaded, the gate is passed,
   the workbook is filled *)

\* the locals of a fill request: eleve is the entry found by loadEleves at
\* the start of the handler; stored is no local of the handler, it records
\* for the properties what the store held when the lock was taken
FillIdle == [pc |-> "idle", semestre |-> "", eleve |-> <<>>, stored |-> <<>>]

\* the first test of the two loops of acquireExcelLock passes
GateOpen(f) ==
    /\ ~GlobalSaturated(activeExcelOperations)
    /\ ~FileLocked(excelLocks, f)

\* acquireExcelLock returns: the lock is taken
FillTakes(r, me) ==
    /\ SetGate(TakeLock(excelLocks, activeExcelOperations, OutputFileName))
    /\ SetReq(r, [me EXCEPT !.pc = "loading",
                            !.stored = eleve.evaluations[me.semestre]])
    /\ UNCHANGED <<classeur, reponse>>

\* from the request to the first pass through acquireExcelLock
FillBegin(r, semestre) ==
    /\ req[r].pc = "idle"
    /\ IF semestre \notin DOMAIN eleve.evaluations
       THEN /\ Refuse("remplir-excel", semestre, 400, "noEval")
            /\ UNCHANGED req
       ELSE IF classeur = NoClasseur
       THEN /\ Refuse("remplir-excel", semestre, 404, "noFile")
            /\ UNCHANGED req
       ELSE LET me == [FillIdle EXCEPT !.semestre = semestre, !.eleve = eleve] IN
            IF GateOpen(OutputFileName)
            THEN FillTakes(r, me)
            ELSE /\ SetReq(r, [me EXCEPT !.pc = "waiting"])
                 /\ UNCHANGED <<excelLocks, activeExcelOperations,
                                classeur, reponse>>
    /\ UNCHANGED <<mapping, eleve, modele, exportDir, session>>
    /\ UNCHANGED annexes

\* a poll of acquireExcelLock after a sleep: more than LOCK_TIMEOUT has
\* passed (expired) and the error reaches the catch block, or the gate is
\* open and the lock is taken, or the request sleeps again
FillPoll(r, expired) ==
    /\ req[r].pc = "waiting"
    /\ IF GateOpen(OutputFileName)
       THEN FillTakes(r, req[r])
       ELSE /\ expired
            /\ SetGate(HandlerCatch(excelLocks, activeExcelOperations,
                                    OutputFileName))
            /\ Repond("remplir-excel", req[r].semestre, 500, "fileBusy")
            /\ SetReq(r, FillIdle)
            /\ UNCHANGED classeur
    /\ UNCHANGED <<mapping, eleve, modele, exportDir, session>>
    /\ UNCHANGED annexes

\* the lock is held: load, the two structural checks, the fill from the
\* student entry loaded at the start, save, release, answer
FillFinish(r, io) ==
    LET me == req[r]
        route == "remplir-excel"
        semestre == me.semestre
        name == mapping.sheetNames[semestre]
        caught == HandlerCatch(excelLocks, activeExcelOperations, OutputFileName)
    IN
    /\ me.pc = "loading"
    /\ IF io # "ok"
       THEN /\ Repond(route, semestre, 500, io)
            /\ SetGate(caught)
            /\ UNCHANGED classeur
       ELSE IF name \notin DOMAIN classeur
       THEN /\ Repond(route, semestre, 400, "sheetNotFound")
            /\ UNCHANGED <<excelLocks, activeExcelOperations, classeur>>
       ELSE IF semestre \notin DOMAIN mapping.evaluations
       THEN /\ Repond(route, semestre, 400, "mappingMissing")
            /\ UNCHANGED <<excelLocks, activeExcelOperations, classeur>>
       ELSE /\ classeur' = [classeur EXCEPT ![name] =
                    RemplirFeuille(@, semestre, me.eleve.evaluations[semestre])]
            /\ SetGate(ReleaseExcelLock(excelLocks, activeExcelOperations,
                                        OutputFileName))
            /\ Repond(route, semestre, 200, "")
    /\ SetReq(r, FillIdle)
    /\ UNCHANGED <<mapping, eleve, modele, exportDir, session>>
    /\ UNCHANGED annexes

----------------------------------------------------------------------------
(* POST /api/eleves/:id/evaluations step by step on the student store *)

\* no target and no data
NoSave == [id |-> 0, semestre |-> "", data |-> Undefined]

\* the locals of a save request: the target and data of the request and the
\* array returned by loadEleves; last is what the last success answer to this
\* client was about
SaveIdle(last) == [pc |-> "idle", save |-> NoSave, eleves |-> <<>>, last |-> last]

\* an entry of eleves.json
Eleve(jury, evaluations) == [jury |-> jury, evaluations |-> evaluations]

\* await loadEleves() resolves with the content of ELEVES_FILE; findIndex,
\* the assignment of evaluations[semestre] and the start of saveEleves follow
\* without an await
EvalLoad(r, id, semestre, data) ==
    /\ req[r].pc = "idle"
    /\ IF id \notin DOMAIN eleves
       THEN /\ Repond("evaluations", semestre, 404, "notFound")
            /\ UNCHANGED req
       ELSE /\ SetReq(r, [req[r] EXCEPT
                    !.pc = "writing",
                    !.save = [id |-> id, semestre |-> semestre, data |-> data],
                    !.eleves = [eleves EXCEPT ![id].evaluations =
                                    (semestre :> data) @@ @]])
            /\ UNCHANGED reponse
    /\ UNCHANGED <<excelLocks, activeExcelOperations, exportDir, session>>
    /\ UNCHANGED <<mapping, eleve, modele, classeur>>
    /\ UNCHANGED annexes

\* await saveEleves(eleves) resolves: fs.writeFile has replaced the file by
\* the array of this request, or has failed (saveEleves then returns false,
\* which the handler does not look at); the handler answers success
EvalWrite(r, io) ==
    /\ req[r].pc = "writing"
    /\ eleves' = IF io = "ok" THEN req[r].eleves ELSE eleves
    /\ Repond("evaluations", req[r].save.semestre, 200, "")
    /\ SetReq(r, SaveIdle(req[r].save))
    /\ UNCHANGED <<excelLocks, activeExcelOperations, exportDir, session>>
    /\ UNCHANGED <<mapping, eleve, modele, classeur>>
    /\ UNCHANGED <<serveur, lockFile, horloge>>

----------------------------------------------------------------------------
(* Sessions and access to the evaluations *)

\* req.session.user: { username, role, juryId }
User(username, role, juryId) ==
    [username |-> username, role |-> role, juryId |-> juryId]

\* a session without a user
NoUser == User("", "none", Null)

\* POST /api/auth/login with the password of user
Login(user) ==
    /\ session' = user
    /\ UNCHANGED <<excelLocks, activeExcelOperations, exportDir, req>>
    /\ UNCHANGED documents

\* checkEvaluationAccess: 0 for next(), or the status of the refusal
CheckEvaluationAccess(semestre) ==
    IF session = NoUser THEN 401
    ELSE IF session.role = "admin" THEN 0
    ELSE IF session.role = "jury"
    THEN IF semestre # "soutenance" THEN 403 ELSE 0
    ELSE 403

\* requireAdmin
RequireAdmin == IF session.role # "admin" THEN 403 ELSE 0

\* a middleware answers and the handler does not run
Denied(route, semestre, status) ==
    /\ Refuse(route, semestre, status, "accessDenied")
    /\ UNCHANGED <<mapping, eleve, modele, exportDir, session, req>>
    /\ UNCHANGED annexes

\* app.post('/api/eleves/:id/evaluations', checkEvaluationAccess, ...)
PostEvaluations(semestre, data) ==
    IF CheckEvaluationAccess(semestre) = 0
    THEN SaveEvaluation(semestre, data)
    ELSE Denied("evaluations", semestre, CheckEvaluationAccess(semestre))

\* app.post('/api/eleves/:id/remplir-excel', checkEvaluationAccess, ...)
PostRemplirExcel(semestre, io) ==
    IF CheckEvaluationAccess(semestre) = 0
    THEN RemplirExcel(semestre, io)
    ELSE Denied("remplir-excel", semestre, CheckEvaluationAccess(semestre))

\* app.post('/api/eleves/:id/generer-excel-complet', requireAdmin, ...)
PostGenererExcelComplet(io) ==
    IF RequireAdmin = 0
    THEN GenererExcelComplet(io)
    ELSE Denied("generer-excel-complet", "", RequireAdmin)

----------------------------------------------------------------------------
(* The evaluation-period lock of the juries *)

\* an entry of evaluation-lock.json; dates are days, or Null
JuryLock(isLocked, startDate, endDate, unlockedEarly) ==
    [isLocked |-> isLocked, startDate |-> startDate, endDate |-> endDate,
     unlockedEarly |-> unlockedEarly]

Unlocked == JuryLock(FALSE, Null, Null, FALSE)

\* what loadEvaluationLock returns when the file cannot be read
DefaultLockData == [j \in {"jury1", "jury2"} |-> Unlocked]

\* isInLockPeriod(lockData, juryId), now being the clock
IsInLockPeriod(lockData, juryId, now) ==
    IF \/ juryId \notin DOMAIN lockData
       \/ ~lockData[juryId].isLocked
       \/ lockData[juryId].unlockedEarly
    THEN FALSE
    ELSE IF lockData[juryId].startDate = Null \/ lockData[juryId].endDate = Null
    THEN FALSE
    ELSE /\ now >= lockData[juryId].startDate.n
         /\ now <= lockData[juryId].endDate.n

\* the session of client r: clients 1 and 2 are the two juries, any other
\* client is the admin
SessionOf(r) ==
    IF r = 1 THEN User("jury1", "jury", Str("jury1"))
    ELSE IF r = 2 THEN User("jury2", "jury", Str("jury2"))
    ELSE User("admin", "admin", Null)

\* the locals of a lock request: the operation, the jury, and allLockData;
\* last is the operation of the last success answer to this client
LockIdle(last) ==
    [pc |-> "idle", op |-> "", juryId |-> "", allLockData |-> <<>>, last |-> last]

\* a lock handler answers without a write
LockAnswer(route, status, erreur) ==
    /\ Repond(route, "", status, erreur)
    /\ UNCHANGED <<req, lockFile>>

\* one of the three handlers up to the call of saveEvaluationLock: the role
\* and input checks, await loadEvaluationLock(), the change of the entry of
\* the jury; entry is the new entry of the jury
LockLoad(r, op, entry) ==
    LET user == SessionOf(r)
        \* the username stands in for a missing juryId
        juryId == IF user.juryId = Null THEN Str(user.username) ELSE user.juryId
    IN
    IF user.role # "jury"
    THEN LockAnswer(op, 403, "accessDenied")
    ELSE IF juryId.s = ""
    THEN LockAnswer(op, 400, "noJuryId")
    ELSE /\ SetReq(r, [req[r] EXCEPT
                !.pc = "writing", !.op = op, !.juryId = juryId.s,
                !.allLockData = [lockFile EXCEPT ![juryId.s] = entry]])
         /\ UNCHANGED <<lockFile, reponse>>

\* POST /api/evaluation-lock/set up to the write
LockSet(r, startDate, endDate) ==
    /\ req[r].pc = "idle"
    /\ IF SessionOf(r).role = "jury" /\ endDate <= startDate
       THEN LockAnswer("set", 400, "endBeforeStart")
       ELSE LockLoad(r, "set",
                     JuryLock(TRUE, Num(startDate), Num(endDate), FALSE))
    /\ UNCHANGED <<excelLocks, activeExcelOperations, exportDir, session>>
    /\ UNCHANGED <<mapping, eleve, modele, classeur, serveur, eleves, horloge>>

\* POST /api/evaluation-lock/unlock up to the write
LockUnlock(r) ==
    /\ req[r].pc = "idle"
    /\ LockLoad(r, "unlock",
                IF SessionOf(r).role = "jury"
                THEN [lockFile[SessionOf(r).juryId.s] EXCEPT !.unlockedEarly = TRUE]
                ELSE Unlocked)
    /\ UNCHANGED <<excelLocks, activeExcelOperations, exportDir, session>>
    /\ UNCHANGED <<mapping, eleve, modele, classeur, serveur, eleves, horloge>>

\* POST /api/evaluation-lock/disable up to the write
LockDisable(r) ==
    /\ req[r].pc = "idle"
    /\ LockLoad(r, "disable", Unlocked)
    /\ UNCHANGED <<excelLocks, activeExcelOperations, exportDir, session>>
    /\ UNCHANGED <<mapping, eleve, modele, classeur, serveur, eleves, horloge>>

\* await saveEvaluationLock(allLockData) resolves or rejects, and the answer
LockWrite(r, io) ==
    /\ req[r].pc = "writing"
    /\ IF io = "ok"
       THEN /\ lockFile' = req[r].allLockData
            /\ Repond(req[r].op, "", 200, "")
            /\ SetReq(r, LockIdle(req[r].op))
       ELSE /\ UNCHANGED lockFile
            /\ Repond(req[r].op, "", 500, io)
            /\ SetReq(r, LockIdle(req[r].last))
    /\ UNCHANGED <<excelLocks, activeExcelOperations, exportDir, session>>
    /\ UNCHANGED <<mapping, eleve, modele, classeur, serveur, eleves, horloge>>

\* a day passes
Jour(max) ==
    /\ horloge < max
    /\ horloge' = horloge + 1
    /\ UNCHANGED gate
    /\ UNCHANGED <<mapping, eleve, modele, classeur, reponse,
                   serveur, eleves, lockFile>>

----------------------------------------------------------------------------
(* startServer *)

\* let mapping = null
MappingUnset == Null

\* what fs.readFile and JSON.parse make of MAPPING_FILE
FichierAbsent == [erreur |-> "ENOENT"]
FichierMalforme == [erreur |-> "SyntaxError"]

\* the whole of startServer: loadMapping, the certificates, listen; any
\* exception ends the process
StartServerIgnoresFailure(fichier, certs) ==
    /\ serveur = "starting"
    /\ serveur' = "listening"
    /\ IF fichier \in {FichierAbsent, FichierMalforme}
       THEN UNCHANGED mapping
       ELSE mapping' = fichier
    /\ UNCHANGED <<eleve, modele, classeur, reponse, eleves, lockFile, horloge>>
    /\ UNCHANGED gate
StartServer(fichier, certs) ==
    /\ serveur = "starting"
    /\ IF fichier \in {FichierAbsent, FichierMalforme}
       THEN /\ serveur' = "exited"
            /\ UNCHANGED mapping
       ELSE /\ mapping' = fichier
            /\ serveur' = IF certs THEN "listening" ELSE "exited"
    /\ UNCHANGED <<eleve, modele, classeur, reponse, eleves, lockFile, horloge>>
    /\ UNCHANGED gate

\* https.createServer(httpsOptions, app).listen: a handler runs for a
\* request only once the server listens
Served(handler) == serveur = "listening" /\ handler

----------------------------------------------------------------------------
(* Specifications *)

\* The process starts: the gate is empty.  sess: for each client, the
\* filenames of the students it works on; generated: whether EXPORT_DIR
\* holds their documents from an earlier run of the server
\* the server listens; no student store, lock file or clock is involved
InitAnnexes ==
    /\ serveur = "listening"
    /\ eleves = <<>>
    /\ lockFile = <<>>
    /\ horloge = 0

InitWith(sess, generated) ==
    /\ excelLocks = {}
    /\ activeExcelOperations = 0
    /\ session = sess
    /\ exportDir = [f \in UNION {sess[r] : r \in DOMAIN sess} |-> generated]
    /\ req = [r \in DOMAIN sess |-> Idle]
    /\ mapping = <<>>
    /\ eleve = <<>>
    /\ modele = <<>>
    /\ classeur = NoClasseur
    /\ reponse = <<>>
    /\ InitAnnexes

\* NReq clients, each working on any of NFiles students, on every route.
\* With fewer filenames than MAX_CONCURRENT_EXCEL_OPERATIONS the first loop of
\* acquireExcelLock never waits.
Init == InitWith([r \in 1..NReq |-> 1..NFiles], FALSE)

Next ==
    \/ Tick
    \/ \E r \in Reqs : StartFill(r)
    \/ \E r \in Reqs : StartRegen(r)
    \/ \E r \in Reqs : PollFile(r)
    \/ \E r \in Reqs : LoadDone(r)
    \/ \E r \in Reqs : SaveDone(r)
    \/ \E r \in Reqs : StartNote(r)
    \/ \E r \in Reqs : NoteLoadDone(r)
    \/ \E r \in Reqs : StartDelete(r)
    \/ \E r \in Reqs : UnlinkDone(r)
    \/ \E r \in Reqs : ClientReceives(r)

Spec == Init /\ [][Next]_vars

\* CapReqs clients regenerate documents that exist: client r works on
\* student r, but the last client works on student 1 and client 1 also on
\* the student of the last client
CapSession(r) ==
    IF r = CapReqs THEN {1} ELSE IF r = 1 THEN {1, CapReqs} ELSE {r}

InitCap == InitWith([r \in 1..CapReqs |-> CapSession(r)], TRUE)

NextCap ==
    \/ Tick
    \/ \E r \in Reqs : StartRegen(r)
    \/ \E r \in Reqs : PollGlobal(r)
    \/ \E r \in Reqs : PollFile(r)
    \/ \E r \in Reqs : LoadDone(r)
    \/ \E r \in Reqs : SaveDone(r)
    \/ \E r \in Reqs : ClientReceives(r)

SpecCap == InitCap /\ [][NextCap]_vars


\* One client fills the documents of CapReqs students, one request after
\* the other; the documents exist
InitSolo == InitWith([r \in {1} |-> 1..CapReqs], TRUE)

NextSolo ==
    \/ Tick
    \/ \E r \in Reqs : StartFill(r)
    \/ \E r \in Reqs : PollGlobal(r)
    \/ \E r \in Reqs : PollFile(r)
    \/ \E r \in Reqs : LoadDone(r)
    \/ \E r \in Reqs : SaveDone(r)
    \/ \E r \in Reqs : ClientReceives(r)

SpecSolo == InitSolo /\ [][NextSolo]_vars

\* Two clients fill the documents of CapReqs students; the documents exist.
\* Time advances and sleeps end: the clock ticks while a request waits, and
\* the setTimeout of every poll fires
Duo == {1, 2}

InitDuo == InitWith([r \in Duo |-> 1..CapReqs], TRUE)

SpecDuo == InitDuo /\ [][NextSolo]_vars

FairDuo ==
    /\ SpecDuo
    /\ WF_vars(Tick)
    /\ \A r \in Duo : WF_vars(PollGlobal(r)) /\ WF_vars(PollFile(r))


\* The documents of one student, one client.

EvalData(c, com, b, n) ==
    [criteres |-> c, commentaireGeneral |-> com, bonus |-> b, note_finale |-> n]

\* the levels a client can send for a criterion: null, 0..4 and one beyond
MaxNiveau == 4
NiveauxEnvoyes == {Null} \cup {Num(n) : n \in 0..(MaxNiveau + 1)}

\* the data a client can send for stage: any level of c1 and of c2 without
\* other fields, or a level of c1 with any comment, bonus and final score
DonneesStage ==
    {EvalData(("c1" :> a) @@ ("c2" :> b), Undefined, Undefined, Undefined) :
        a \in NiveauxEnvoyes, b \in {Null, Num(3)}}
    \cup
    {EvalData("c1" :> Num(2), com, b, n) :
        com \in {Undefined, Str("a")},
        b \in {Undefined, Str("abc"), Num(2)},
        n \in {Undefined, Null, Num(12)}}

\* the data the client of SpecFill saves for stage
SavedStage ==
    {EvalData(("c1" :> Num(2)) @@ ("c2" :> Num(3)), Undefined, Undefined, Undefined),
     EvalData(("c1" :> Num(4)) @@ ("c2" :> Null), Undefined, Undefined, Undefined),
     EvalData(("c1" :> Num(MaxNiveau + 1)) @@ ("c2" :> Num(3)),
              Undefined, Undefined, Undefined),
     EvalData("c1" :> Num(2), Str("a"), Num(2), Num(12)),
     EvalData("c1" :> Num(0), Undefined, Str("abc"), Null)}

\* the data the client of SpecRegen saves for a phase
SavedRegen(semestre) ==
    IF semestre = "stage"
    THEN {EvalData(("c1" :> Num(2)) @@ ("c2" :> Num(3)), Undefined, Undefined, Undefined),
          EvalData("c1" :> Num(4), Str("a"), Num(2), Num(12))}
    ELSE {EvalData("c3" :> a, Undefined, Undefined, Undefined) :
            a \in {Num(1), Num(3)}}

\* the level columns of mapping.json: C to F, or shifted by one to D to G
NiveauxCF == (1 :> "C") @@ (2 :> "D") @@ (3 :> "E") @@ (4 :> "F")
NiveauxDG == (1 :> "D") @@ (2 :> "E") @@ (3 :> "F") @@ (4 :> "G")

Critere(id, ligne) == [id |-> id, ligne |-> ligne]

\* the cells of the comment, the bonus and the final score of a phase
CelluleCommentaire == <<"A", LigneChamps>>
CelluleBonus == <<"C", LigneChamps>>
CelluleNoteFinale == <<"F", LigneChamps>>
CelluleIdentite == <<"D", LigneChamps>>

SheetKeys == {"stage", "revue1", RecapKey}

\* mapping.json: niv the level columns, ligne1 the row of criterion c1 (0: a
\* row that is no row), phases the keys of mapping.evaluations
MappingOf(niv, ligne1, phases) ==
    [niveaux |-> niv,
     sheetNames |-> [k \in SheetKeys |-> k],
     evaluations |->
        [p \in phases |->
            IF p = "stage"
            THEN <<Critere("c1", ligne1), Critere("c2", NLignes)>>
            ELSE <<Critere("c3", 1)>>],
     commentaires |-> [k \in {"stage", "revue1"} |-> CelluleCommentaire],
     champs_supplementaires |->
        ("stage" :> (("bonus" :> CelluleBonus)
                     @@ ("note_finale" :> CelluleNoteFinale))),
     identite |-> [k \in SheetKeys |-> CelluleIdentite]]

\* a sheet of the template: weights in column A, an example mark left in
\* the last criterion row, the title with the session placeholder
FeuilleModele ==
    [a \in Adresses |->
        IF a[1] = "A" /\ a[2] <= NLignes THEN Num(a[2])
        ELSE IF a = <<"F", NLignes>> THEN Str("X")
        ELSE IF a = CelluleSession THEN Str("SESSION 20xx")
        ELSE Undefined]

ModeleOf(names) == [name \in names |-> FeuilleModele]

NoReponse == [route |-> "none", semestre |-> "", status |-> 0, erreur |-> ""]

\* the process starts with mapping m loaded and template t in place; the
\* student has no evaluation and no document yet
InitDocuments(m, t) ==
    /\ excelLocks = {}
    /\ activeExcelOperations = 0
    /\ exportDir = <<>>
    /\ session = <<>>
    /\ req = <<>>
    /\ mapping = m
    /\ modele = t
    /\ eleve = [nom |-> Str("Durand"), evaluations |-> <<>>,
                note_proposee |-> Num(12), commentaires |-> Undefined,
                jury |-> Str("jury 1")]
    /\ classeur = NoClasseur
    /\ reponse = NoReponse
    /\ InitAnnexes

\* SpecFill: the client evaluates the stage phase
InitFill ==
    \E niv \in {NiveauxCF, NiveauxDG}, ligne1 \in {0, 1},
       phases \in {{"stage"}, {}},
       names \in {{"stage", RecapKey}, {RecapKey}} :
        InitDocuments(MappingOf(niv, ligne1, phases), ModeleOf(names))

NextFill ==
    \/ \E data \in SavedStage : SaveEvaluation("stage", data)
    \/ \E io \in IoOutcomes : RemplirExcel("stage", io)
    \/ \E io \in IoOutcomes : GenererExcelComplet(io)

SpecFill == InitFill /\ [][NextFill]_vars

\* SpecRegen: the client evaluates stage and revue1
InitRegen ==
    \E niv \in {NiveauxCF, NiveauxDG},
       phases \in {{"stage", "revue1"}, {"stage"}},
       names \in {SheetKeys, {"stage", RecapKey}} :
        InitDocuments(MappingOf(niv, 1, phases), ModeleOf(names))

NextRegen ==
    \/ \E semestre \in {"stage", "revue1"} :
            \E data \in SavedRegen(semestre) : SaveEvaluation(semestre, data)
    \/ \E semestre \in {"stage", "revue1"}, io \in IoOutcomes :
            RemplirExcel(semestre, io)
    \/ \E io \in IoOutcomes : GenererExcelComplet(io)

SpecRegen == InitRegen /\ [][NextRegen]_vars

\* SpecCalcul: a generated document is read back by the calculator
NCalcRows == 2

CalcLettres == {"A", "C", "D", "E", "F"}
CalcLignes == 18..63
CelluleNoteCalculee == <<"F", 63>>

\* the level columns of one row with the mark in the columns m
Marques(m) == [c \in colonnes |-> IF c \in m THEN Str("x") ELSE Undefined]

\* one row of a group: its level columns and its weight in column A; no
\* mark, one mark, two marks, a weight of 0, an upper-case mark typed by hand
LigneTirages ==
    {[marques |-> Marques({}), a |-> Num(1)],
     [marques |-> Marques({"C"}), a |-> Num(1)],
     [marques |-> Marques({"D"}), a |-> Num(2)],
     [marques |-> Marques({"F"}), a |-> Num(2)],
     [marques |-> Marques({"F"}), a |-> Num(0)],
     [marques |-> Marques({"C", "E"}), a |-> Num(1)],
     [marques |-> [c \in colonnes |-> IF c = "D" THEN Str("X") ELSE Undefined],
      a |-> Num(1)]}

\* the rows drawn together with every choice of weight cells
LigneTiragesCourts ==
    {[marques |-> Marques({}), a |-> Num(1)],
     [marques |-> Marques({"D"}), a |-> Num(2)],
     [marques |-> Marques({"F"}), a |-> Num(2)]}

\* the weight cells of the groups (c08 and c10 together), the bonus cell and
\* the calculated score cell of a sheet
PoidsTirage(c01, c03, autres, bonus, note) ==
    [c01 |-> c01, c03 |-> c03, autres |-> autres, bonus |-> bonus, note |-> note]
PoidsTirages ==
    {PoidsTirage(Undefined, Undefined, Undefined, Undefined, Undefined),
     PoidsTirage(Undefined, Undefined, Undefined, Undefined, Num(14)),
     PoidsTirage(Undefined, Undefined, Undefined, Undefined,
                 Str("croix a reprendre")),
     PoidsTirage(Undefined, Undefined, Undefined, Num(1), Undefined),
     PoidsTirage(Num(1), Undefined, Undefined, Undefined, Undefined),
     PoidsTirage(Num(1), Num(2), Undefined, Undefined, Undefined),
     PoidsTirage(Num(1), Num(1), Num(1), Undefined, Undefined),
     PoidsTirage(Num(1), Num(1), Num(1), Num(1), Undefined)}

\* mapping.json with a calculated score configured for phases; the phase
\* "autre", for which the calculator has no layout, is read from the sheet
\* of stage
MappingCalcul(niv, phases) ==
    [niveaux |-> niv,
     sheetNames |-> [k \in SemestresCalcul \cup {"autre"} |->
                        IF k = "autre" THEN "stage" ELSE k],
     evaluations |-> <<>>,
     commentaires |-> <<>>,
     champs_supplementaires |->
        [p \in phases |-> ("note_calculee" :> CelluleNoteCalculee)],
     identite |-> <<>>]

\* the rows and weight cells of the four groups on the sheet of a phase: the
\* sheet of revue1 is laid out as those of the later reviews
Disposition(semestre) ==
    IF semestre = "revue1" THEN LignesConfig("revue2") ELSE LignesConfig(semestre)

\* the sheet of a phase: the first NCalcRows rows of group c01 hold lignes,
\* its last row a mark without a weight, one row of each other group a mark
\* with weight 1 (level 2 in row 33, 3 in row 45, 1 in row 57), the weight
\* cells, the bonus cell and the calculated score cell hold t
FeuilleCalcul(semestre, lignes, t) ==
    LET d == Disposition(semestre)
        c01 == d.lignes["c01"]
        drawn == SubSeq(c01, 1, NCalcRows)
        idx(l) == CHOOSE i \in DOMAIN drawn : drawn[i] = l
    IN  [ad \in CalcLettres \X CalcLignes |->
            IF ad = CelluleNoteCalculee THEN t.note
            ELSE IF ad = CelluleBonusCalcul THEN t.bonus
            ELSE IF ad = d.poids["c01"] THEN t.c01
            ELSE IF ad = d.poids["c03"] THEN t.c03
            ELSE IF ad \in {d.poids["c08"], d.poids["c10"]} THEN t.autres
            ELSE IF ad[2] \in {drawn[i] : i \in DOMAIN drawn}
            THEN IF ad[1] = "A" THEN lignes[idx(ad[2])].a
                 ELSE lignes[idx(ad[2])].marques[ad[1]]
            ELSE IF ad \in {<<"F", c01[Len(c01)]>>, <<"E", 33>>,
                            <<"F", 45>>, <<"D", 57>>} THEN Str("x")
            ELSE IF ad \in {<<"A", 33>>, <<"A", 45>>, <<"A", 57>>} THEN Num(1)
            ELSE Undefined]

InitCalculWith(m, c) ==
    /\ excelLocks = {}
    /\ activeExcelOperations = 0
    /\ exportDir = <<>>
    /\ session = <<>>
    /\ req = <<>>
    /\ mapping = m
    /\ modele = <<>>
    /\ eleve = [nom |-> Str("Durand"), evaluations |-> <<>>,
                note_proposee |-> Num(12), commentaires |-> Undefined,
                jury |-> Str("jury 1")]
    /\ classeur = c
    /\ reponse = NoReponse
    /\ InitAnnexes

InitCalcul ==
    \/ \E semestre \in SemestresCalcul,
          lignes \in [1..NCalcRows -> LigneTirages],
          t \in {PoidsTirage(Num(1), Num(2), Undefined, Undefined, Undefined),
                 PoidsTirage(Num(1), Num(1), Num(1), Num(1), Undefined)} :
            InitCalculWith(MappingCalcul(NiveauxCF, SemestresCalcul \cup {"autre"}),
                           semestre :> FeuilleCalcul(semestre, lignes, t))
    \/ \E semestre \in SemestresCalcul,
          lignes \in [1..NCalcRows -> LigneTiragesCourts],
          t \in PoidsTirages :
            InitCalculWith(MappingCalcul(NiveauxCF, SemestresCalcul \cup {"autre"}),
                           semestre :> FeuilleCalcul(semestre, lignes, t))
    \/ \E semestre \in SemestresCalcul,
          lignes \in [1..NCalcRows -> LigneTiragesCourts] :
            InitCalculWith(MappingCalcul(NiveauxDG, SemestresCalcul),
                           semestre :> FeuilleCalcul(semestre, lignes,
                                PoidsTirage(Num(1), Num(1), Num(1), Num(1),
                                            Undefined)))
    \/ \E phases \in {{}, {"revue1"}},
          c \in {NoClasseur,
                 "stage" :> FeuilleCalcul("stage",
                                [i \in 1..NCalcRows |->
                                    [marques |-> Marques({}), a |-> Num(1)]],
                                PoidsTirage(Undefined, Undefined, Undefined,
                                            Undefined, Undefined))} :
            InitCalculWith(MappingCalcul(NiveauxCF, phases), c)

NextCalcul ==
    \E semestre \in SemestresCalcul \cup {"autre"}, io \in {"ok", "loadError"} :
        NoteCalculee(semestre, io)

SpecCalcul == InitCalcul /\ [][NextCalcul]_vars

\* SpecStart: the process starts with some mapping file, then serves the
\* client evaluating the stage phase
InitStart ==
    /\ excelLocks = {}
    /\ activeExcelOperations = 0
    /\ exportDir = <<>>
    /\ session = <<>>
    /\ req = <<>>
    /\ mapping = MappingUnset
    /\ modele = ModeleOf({"stage", RecapKey})
    /\ eleve = [nom |-> Str("Durand"), evaluations |-> <<>>,
                note_proposee |-> Num(12), commentaires |-> Undefined,
                jury |-> Str("jury 1")]
    /\ classeur = NoClasseur
    /\ reponse = NoReponse
    /\ serveur = "starting"
    /\ eleves = <<>>
    /\ lockFile = <<>>
    /\ horloge = 0

MappingFiles ==
    {FichierAbsent, FichierMalforme}
    \cup {MappingOf(niv, 1, phases) :
            niv \in {NiveauxCF, NiveauxDG}, phases \in {{"stage"}, {}}}

NextStart ==
    \/ \E fichier \in MappingFiles, certs \in BOOLEAN : StartServer(fichier, certs)
    \/ \E data \in SavedStage : Served(SaveEvaluation("stage", data))
    \/ \E io \in IoOutcomes : Served(RemplirExcel("stage", io))
    \/ \E io \in IoOutcomes : Served(GenererExcelComplet(io))

SpecStart == InitStart /\ [][NextStart]_vars

\* SpecJury: the admin and the two juries work on one student, assigned to
\* one of the juries, in the phases stage and soutenance
Users ==
    {User("admin", "admin", Null),
     User("jury1", "jury", Str("jury1")),
     User("jury2", "jury", Str("jury2"))}

MappingJury ==
    [MappingOf(NiveauxCF, 1, {"stage", "soutenance"}) EXCEPT
        !.sheetNames = [k \in {"stage", "soutenance", RecapKey} |-> k],
        !.commentaires = [k \in {"stage", "soutenance"} |-> CelluleCommentaire],
        !.identite = [k \in {"stage", "soutenance", RecapKey} |-> CelluleIdentite]]

SavedJury(semestre) ==
    IF semestre = "stage"
    THEN {EvalData(("c1" :> Num(2)) @@ ("c2" :> Num(3)), Undefined, Undefined, Undefined)}
    ELSE {EvalData("c3" :> a, Undefined, Undefined, Undefined) :
            a \in {Num(1), Num(3)}}

InitJury ==
    \E jury \in {Str("jury1"), Str("jury2")} :
        /\ excelLocks = {}
        /\ activeExcelOperations = 0
        /\ exportDir = <<>>
        /\ session = NoUser
        /\ req = <<>>
        /\ mapping = MappingJury
        /\ modele = ModeleOf({"stage", "soutenance", RecapKey})
        /\ eleve = [nom |-> Str("Durand"), evaluations |-> <<>>,
                    note_proposee |-> Num(12), commentaires |-> Undefined,
                    jury |-> jury]
        /\ classeur = NoClasseur
        /\ reponse = NoReponse
        /\ InitAnnexes

NextJury ==
    \/ \E user \in Users : Login(user)
    \/ \E semestre \in {"stage", "soutenance"} :
            \E data \in SavedJury(semestre) : PostEvaluations(semestre, data)
    \/ \E semestre \in {"stage", "soutenance"}, io \in IoOutcomes :
            PostRemplirExcel(semestre, io)
    \/ \E io \in IoOutcomes : PostGenererExcelComplet(io)

SpecJury == InitJury /\ [][NextJury]_vars

\* SpecAttente: two clients fill the stage sheet of one student while the
\* evaluation is saved again; the document is regenerated between fills
NClients == 2
Clients == 1..NClients

SavedAttente ==
    {EvalData(("c1" :> Num(2)) @@ ("c2" :> Num(3)), Undefined, Undefined, Undefined),
     EvalData(("c1" :> Num(4)) @@ ("c2" :> Num(1)), Str("a"), Num(2), Num(12))}

InitAttente ==
    /\ excelLocks = {}
    /\ activeExcelOperations = 0
    /\ exportDir = <<>>
    /\ session = <<>>
    /\ req = [r \in Clients |-> FillIdle]
    /\ mapping = MappingOf(NiveauxCF, 1, {"stage"})
    /\ modele = ModeleOf({"stage", RecapKey})
    /\ eleve = [nom |-> Str("Durand"), evaluations |-> <<>>,
                note_proposee |-> Num(12), commentaires |-> Undefined,
                jury |-> Str("jury 1")]
    /\ classeur = NoClasseur
    /\ reponse = NoReponse
    /\ InitAnnexes

NextAttente ==
    \/ \E data \in SavedAttente : SaveEvaluation("stage", data)
    \/ excelLocks = {} /\ GenererExcelComplet("ok")
    \/ \E r \in Clients : FillBegin(r, "stage")
    \/ \E r \in Clients, expired \in BOOLEAN : FillPoll(r, expired)
    \/ \E r \in Clients, io \in IoOutcomes : FillFinish(r, io)

SpecAttente == InitAttente /\ [][NextAttente]_vars

\* SpecStore: two clients save evaluations; client 1 the stage phase of
\* student 1, client 2 the stage phase of student 2, the revue1 phase of
\* student 1 or the stage phase of a student that does not exist; the disk
\* does not fail
CiblesStore(r) ==
    IF r = 1 THEN {<<1, "stage">>} ELSE {<<2, "stage">>, <<1, "revue1">>, <<3, "stage">>}

SavedStore ==
    {EvalData("c1" :> a, Undefined, Undefined, Undefined) : a \in {Num(1), Num(3)}}

InitStore ==
    /\ excelLocks = {}
    /\ activeExcelOperations = 0
    /\ exportDir = <<>>
    /\ session = <<>>
    /\ req = [r \in Clients |-> SaveIdle(NoSave)]
    /\ mapping = MappingOf(NiveauxCF, 1, {"stage"})
    /\ modele = ModeleOf({"stage", RecapKey})
    /\ eleve = <<>>
    /\ classeur = NoClasseur
    /\ reponse = NoReponse
    /\ serveur = "listening"
    /\ eleves = [id \in {1, 2} |-> Eleve(Str("jury1"), <<>>)]
    /\ lockFile = <<>>
    /\ horloge = 0

NextStore ==
    \/ \E r \in Clients : \E c \in CiblesStore(r) :
            \E data \in SavedStore : EvalLoad(r, c[1], c[2], data)
    \/ \E r \in Clients : EvalWrite(r, "ok")

SpecStore == InitStore /\ [][NextStore]_vars

\* SpecLock: the two juries set, unlock and disable their evaluation period
\* while MaxJour days pass
MaxJour == 3

\* the juries and the admin
LockClients == Clients \cup {NClients + 1}

InitLock ==
    /\ excelLocks = {}
    /\ activeExcelOperations = 0
    /\ exportDir = <<>>
    /\ session = <<>>
    /\ req = [r \in LockClients |-> LockIdle("")]
    /\ mapping = MappingOf(NiveauxCF, 1, {"stage"})
    /\ modele = ModeleOf({"stage", RecapKey})
    /\ eleve = <<>>
    /\ classeur = NoClasseur
    /\ reponse = NoReponse
    /\ serveur = "listening"
    /\ eleves = <<>>
    /\ lockFile = DefaultLockData
    /\ horloge = 0

NextLock ==
    \/ Jour(MaxJour)
    \/ \E r \in LockClients, d \in {<<1, MaxJour>>, <<2, 1>>} : LockSet(r, d[1], d[2])
    \/ \E r \in LockClients : LockUnlock(r)
    \/ \E r \in LockClients : LockDisable(r)
    \/ \E r \in LockClients, io \in {"ok", "saveError"} : LockWrite(r, io)

SpecLock == InitLock /\ [][NextLock]_vars

----------------------------------------------------------------------------
(* Properties *)

\* r has completed acquireExcelLock and has neither released nor answered
InFlight(r) == req[r].pc \in {"loading", "saving"}

\* the handler of r answers in this step
Answers(r) == req[r].pc # "answered" /\ req'[r].pc = "answered"

Range(seq) == {seq[i] : i \in DOMAIN seq}

Occurrences(seq, e) == Cardinality({i \in DOMAIN seq : seq[i] = e})

\* C1: at most one request at a time is between its successful acquire and
\* its own release for a given output filename.
C1_MutualExclusion ==
    \A r1, r2 \in Reqs :
        (r1 # r2 /\ InFlight(r1) /\ InFlight(r2))
            => req[r1].outputFileName # req[r2].outputFileName

\* C2: at most MAX_CONCURRENT_EXCEL_OPERATIONS requests are between a
\* completed acquire and their release.
C2_GlobalCap ==
    Cardinality({r \in Reqs : InFlight(r)}) <= MAX_CONCURRENT_EXCEL_OPERATIONS

\* C3: a request that has acquired the lock never answers while the lock
\* entry of its filename is still in the table.
C3_ReleaseOnEveryFailurePath ==
    [][\A r \in Reqs :
        (InFlight(r) /\ Answers(r))
            => req[r].outputFileName \notin excelLocks']_vars

C5_TimeoutLeavesGate ==
    [][\A r \in Reqs :
        (Waiting(r) /\ Answers(r)
            /\ req'[r].result \in {"fileBusy", "tooManyOps"})
            => (excelLocks' = excelLocks
                /\ activeExcelOperations' = activeExcelOperations)]_vars

\* C6: a request that is loading, saving or unlinking an output file has
\* acquired the lock of that filename and the entry is in the table.
C6_NoAccessWithoutLock ==
    \A r \in Reqs :
        req[r].pc \in {"loading", "saving", "noteLoading", "unlinking"}
            => (InFlight(r) /\ FileLocked(excelLocks, req[r].outputFileName))

Rank(e) ==
    CASE e = "acquire" -> 1
      [] e \in {"load", "loadFail"} -> 2
      [] e = "fill" -> 3
      [] e \in {"saveOk", "saveFail"} -> 4
      [] e = "release" -> 5
      [] OTHER -> 0

C8_ReleaseIdempotent ==
    \A f \in Files :
        LET once == ReleaseExcelLock(excelLocks, activeExcelOperations, f)
            twice == ReleaseExcelLock(once.locks, once.active, f)
        IN  twice = once

\* C9: the in-flight counter is never negative.
C9_CounterNeverNegative == activeExcelOperations >= 0

\* a request that never acquired has released (its wait timed out) and the
\* holder has released after it: the counter was 0 at the second release
C9_Witness ==
    \E r1, r2 \in Reqs :
        /\ r1 # r2
        /\ req[r1].pc = "answered" /\ req[r1].result = "fileBusy"
        /\ req[r2].pc = "answered"
        /\ req[r2].events = <<"acquire", "load", "fill", "saveOk", "release">>
        /\ activeExcelOperations = 0

\* C10: acquire fails with the too-many-operations error only from the first
\* wait, after more than LOCK_TIMEOUT since acquire was called and with the
\* gate saturated; with the file-is-busy error only from the second wait,
\* after more than LOCK_TIMEOUT spent in that wait and with the file locked;
\* a request that has spent at most LOCK_TIMEOUT in the second wait does not
\* time out, however long ago acquire was called; and a poll that finds the
\* wait condition still true after more than LOCK_TIMEOUT fails.
C10_TwoIndependentTimeouts ==
    [][\A r \in Reqs :
        /\ (Answers(r) /\ req'[r].result = "tooManyOps")
            => /\ req[r].pc = "waitGlobal"
               /\ req[r].sinceStart > LOCK_TIMEOUT
               /\ activeExcelOperations >= MAX_CONCURRENT_EXCEL_OPERATIONS
        /\ (Answers(r) /\ req'[r].result = "fileBusy")
            => /\ req[r].pc = "waitFile"
               /\ req[r].inFileWait > LOCK_TIMEOUT
               /\ req[r].outputFileName \in excelLocks
        /\ (req[r].pc = "waitFile" /\ req[r].inFileWait <= LOCK_TIMEOUT)
            => req'[r].pc \in {"waitFile", "loading"}
        /\ (req[r].pc = "waitGlobal" /\ req[r].sinceStart <= LOCK_TIMEOUT)
            => req'[r].pc \in {"waitGlobal", "waitFile", "loading"}
        /\ (req[r].pc = "waitFile" /\ req'[r].pc # "waitFile"
                /\ req[r].outputFileName \in excelLocks)
            => req'[r].result = "fileBusy"
        /\ (req[r].pc = "waitGlobal" /\ req'[r].pc # "waitGlobal"
                /\ activeExcelOperations >= MAX_CONCURRENT_EXCEL_OPERATIONS)
            => req'[r].result = "tooManyOps"]_vars

\* a request is in the second wait for exactly LOCK_TIMEOUT, acquire was
\* called more than LOCK_TIMEOUT ago, and it has not timed out
C10_Witness ==
    \E r \in Reqs :
        /\ req[r].pc = "waitFile"
        /\ req[r].sinceStart > LOCK_TIMEOUT
        /\ req[r].inFileWait = LOCK_TIMEOUT

\* r enters acquireExcelLock in this step, for filename req'[r].outputFileName
Arrives(r) ==
    /\ req[r].pc = "idle"
    /\ req'[r].pc \in {"waitGlobal", "waitFile", "loading"}

\* C11: a request for a filename that has no lock entry, arriving while
\* fewer than MAX_CONCURRENT_EXCEL_OPERATIONS requests are in flight,
\* completes acquire in the step it arrives, without waiting.
C11_DifferentFilesDoNotBlock ==
    [][\A r \in Reqs :
        (/\ Arrives(r)
         /\ ~FileLocked(excelLocks, req'[r].outputFileName)
         /\ Cardinality({q \in Reqs : InFlight(q)})
                < MAX_CONCURRENT_EXCEL_OPERATIONS)
            => req'[r].pc = "loading"]_vars

(* Properties of the documents *)

\* the last request was a single-phase fill that answered success
FillAnswered == reponse.route = "remplir-excel" /\ reponse.status = 200

\* this step is a single-phase fill that answers success (or nothing moves
\* after one)
FillSucceeds == reponse'.route = "remplir-excel" /\ reponse'.status = 200

\* the sheet of a phase in the student's workbook
Feuille(semestre) == classeur[mapping.sheetNames[semestre]]

\* the criteria of a phase whose row is a row of the sheet
ValidCriteres(semestre) ==
    SelectSeq(mapping.evaluations[semestre], LAMBDA c : c.ligne \in 1..NLignes)

\* the level column the spec gives for level n: niveau_1 for 0 and 1
ColonneAttendue(n) == mapping.niveaux[IF n <= 1 THEN 1 ELSE n]

\* C12: on every workbook the server can hold, for every data a client can
\* send, the cell-fill pass applied twice gives the cells of the pass
\* applied once.
C12_FillIdempotent ==
    (/\ classeur # NoClasseur
     /\ "stage" \in DOMAIN classeur
     /\ "stage" \in DOMAIN mapping.evaluations)
        => \A data \in DonneesStage :
            LET once == RemplirFeuille(Feuille("stage"), "stage", data)
            IN  RemplirFeuille(once, "stage", data) = once

\* a fill has run on a workbook that already held a comment and marks
C12_Witness ==
    /\ FillAnswered
    /\ Feuille("stage")[CelluleCommentaire] = Str("a")
    /\ eleve.evaluations["stage"].commentaireGeneral = Str("a")
    /\ \E a \in Adresses : a[2] <= NLignes /\ Feuille("stage")[a] = Str("x")

\* C13: a fill puts the mark of levels 0 and 1 in the niveau_1 column, of
\* levels 2, 3, 4 in their own columns, and leaves the four level cells of
\* the row of a criterion with a level outside 0-4 as they were.
C13_LevelCollapse ==
    [][FillSucceeds =>
        LET data == eleve.evaluations["stage"]
            before == Feuille("stage")
            after == Feuille("stage")'
            criteres == ValidCriteres("stage")
        IN  \A i \in DOMAIN criteres :
                LET c == criteres[i] IN
                (c.id \in DOMAIN data.criteres /\ data.criteres[c.id].k = "number")
                    => LET n == data.criteres[c.id].n IN
                       IF n \in 0..MaxNiveau
                       THEN after[<<ColonneAttendue(n), c.ligne>>] = Str("x")
                       ELSE \A k \in 1..MaxNiveau :
                                after[<<mapping.niveaux[k], c.ligne>>]
                                    = before[<<mapping.niveaux[k], c.ligne>>]]_vars

\* C14: after a fill, the row of every criterion with a level carries a mark
\* in the column of that level and in no other level column, whatever
\* columns mapping.niveaux gives.
C14_ReevaluationErasesOldMark ==
    FillAnswered =>
        LET data == eleve.evaluations["stage"]
            criteres == ValidCriteres("stage")
        IN  \A i \in DOMAIN criteres :
                LET c == criteres[i] IN
                (/\ c.id \in DOMAIN data.criteres
                 /\ data.criteres[c.id].k = "number"
                 /\ data.criteres[c.id].n \in 0..MaxNiveau)
                    => \A k \in 1..MaxNiveau :
                        IsMark(Feuille("stage")[<<mapping.niveaux[k], c.ligne>>])
                            <=> (mapping.niveaux[k]
                                    = ColonneAttendue(data.criteres[c.id].n))

\* C15: a fill writes the numeric bonus of the record in the bonus cell, 0
\* when the bonus is not a number or is missing, and leaves the final-score
\* cell as it was when the record's final score is missing or null.
C15_AuxiliaryFields ==
    [][FillSucceeds =>
        LET data == eleve.evaluations["stage"]
            champsSupp == mapping.champs_supplementaires["stage"]
            before == Feuille("stage")
            after == Feuille("stage")'
        IN  /\ after[champsSupp["bonus"]] =
                    (IF data.bonus.k = "number" THEN data.bonus ELSE Num(0))
            /\ data.note_finale \in {Undefined, Null}
                => after[champsSupp["note_finale"]]
                        = before[champsSupp["note_finale"]]]_vars

\* the file, the sheet, the mapping and the data of a single-phase fill of
\* semestre are there
FillPossible(semestre) ==
    /\ semestre \in DOMAIN eleve.evaluations
    /\ classeur # NoClasseur
    /\ mapping.sheetNames[semestre] \in DOMAIN classeur
    /\ semestre \in DOMAIN mapping.evaluations

\* C16: a fill whose structural conditions hold and whose load and save
\* succeed answers success, also when a criterion of the mapping has a row
\* that is no row, and saves the sheet as the pass over the other criteria
\* alone makes it.
C16_PartialFailureTolerated ==
    [][(/\ reponse'.route = "remplir-excel"
        /\ FillPossible("stage")
        /\ ~FileLocked(excelLocks, OutputFileName)
        /\ reponse'.erreur \notin {"loadError", "saveError"})
        => /\ reponse'.status = 200
           /\ Feuille("stage")' =
                RemplirCriteres(Feuille("stage"), ValidCriteres("stage"),
                                "stage", eleve.evaluations["stage"])]_vars

\* a fill has answered success with the first criterion on row 0, a level
\* recorded for it, and the second criterion is marked
C16_Witness ==
    /\ FillAnswered
    /\ mapping.evaluations["stage"][1].ligne = 0
    /\ HasNiveau(eleve.evaluations["stage"], "c1")
    /\ HasNiveau(eleve.evaluations["stage"], "c2")
    /\ eleve.evaluations["stage"].criteres["c2"] = Num(3)
    /\ Feuille("stage")[<<mapping.niveaux[3], NLignes>>] = Str("x")

\* C17: a single-phase fill without its output file, its sheet, its phase
\* mapping or its stored record answers a failure, and a fill that answers a
\* failure leaves the stored workbook as it was (none is created).
C17_StructuralFailureLeavesFile ==
    [][reponse'.route = "remplir-excel" =>
        /\ ~FillPossible(reponse'.semestre) => reponse'.status # 200
        /\ reponse'.status # 200 => classeur' = classeur]_vars

\* a fill has been refused because the workbook of the student, which
\* exists, has no sheet for the phase
C17_Witness ==
    /\ reponse.route = "remplir-excel"
    /\ reponse.erreur = "sheetNotFound"
    /\ reponse.status = 400
    /\ classeur # NoClasseur
    /\ "stage" \in DOMAIN eleve.evaluations

\* the cells of a sheet that belong to the evaluation of stage
PhaseCells(sheet) ==
    [a \in {a \in DOMAIN sheet :
                \/ a \in {CelluleCommentaire, CelluleBonus, CelluleNoteFinale}
                \/ /\ a[1] \in colonnes \cup {mapping.niveaux[k] : k \in 1..MaxNiveau}
                   /\ a[2] <= NLignes} |-> sheet[a]]

\* C19: after a fill with the stored record, the mark, comment, bonus and
\* final-score cells of the phase are those of a fill with that record on
\* the sheet of a workbook that never was filled.
C19_FullReplacement ==
    FillAnswered =>
        PhaseCells(Feuille("stage")) =
            PhaseCells(RemplirFeuille(IdentitePass(modele)["stage"], "stage",
                                      eleve.evaluations["stage"]))

\* what a single-phase fill of semestre saves when it runs on workbook, and
\* workbook itself when the fill is refused
SinglePhaseFill(workbook, semestre) ==
    IF /\ semestre \in DOMAIN eleve.evaluations
       /\ semestre \in DOMAIN mapping.sheetNames
       /\ mapping.sheetNames[semestre] \in DOMAIN workbook
       /\ semestre \in DOMAIN mapping.evaluations
    THEN [workbook EXCEPT ![mapping.sheetNames[semestre]] =
            RemplirFeuille(@, semestre, eleve.evaluations[semestre])]
    ELSE workbook

RECURSIVE SinglePhaseFills(_, _)
SinglePhaseFills(workbook, phases) ==
    IF phases = <<>>
    THEN workbook
    ELSE SinglePhaseFills(SinglePhaseFill(workbook, Head(phases)), Tail(phases))

\* C18: the workbook that a full regeneration saves has the cells of the
\* template after the identity and summary passes and one single-phase fill
\* for each phase, in turn.
C18_RegenerationConsolidates ==
    (reponse.route = "generer-excel-complet" /\ reponse.status = 200)
        => classeur =
            SinglePhaseFills(RecapPass(SessionPass(IdentitePass(modele))),
                             semestres)

\* a regeneration has answered success for a student with data for two
\* phases whose sheets and mappings exist
C18_Witness ==
    /\ reponse.route = "generer-excel-complet" /\ reponse.status = 200
    /\ DOMAIN eleve.evaluations = {"stage", "revue1"}
    /\ {"stage", "revue1"} \subseteq DOMAIN mapping.evaluations
    /\ {"stage", "revue1"} \subseteq DOMAIN classeur
    /\ eleve.evaluations["stage"].bonus = Num(2)
    /\ classeur["stage"][CelluleBonus] = Num(2)
    /\ \E a \in Adresses : classeur["revue1"][a] = Str("x")

(* Properties of the calculator *)

\* the handler has answered with a score it calculated
NoteCalculated ==
    /\ reponse.route = "note-calculee"
    /\ reponse.note_calculee.k = "centiemes"

\* the sheet the answered request has read
FeuilleLue == classeur[mapping.sheetNames[reponse.semestre]]

\* the level columns of row l that hold the mark
MarkedColumns(sheet, l) == {c \in colonnes : sheet[<<c, l>>] = Str("x")}

\* the position of level column c: 0 for the leftmost, 3 for the rightmost
Position(c) ==
    CASE c = "C" -> 0 [] c = "D" -> 1 [] c = "E" -> 2 [] c = "F" -> 3

\* the rows of ls that contribute: a mark and a positive weight
Contributing(sheet, ls) ==
    {l \in Range(ls) : /\ MarkedColumns(sheet, l) # {}
                       /\ sheet[<<"A", l>>].k = "number"
                       /\ sheet[<<"A", l>>].n > 0}

\* the position of the leftmost marked column of row l
PositionOfMark(sheet, l) ==
    CHOOSE p \in 0..3 :
        /\ \E c \in MarkedColumns(sheet, l) : Position(c) = p
        /\ \A c \in MarkedColumns(sheet, l) : Position(c) >= p

RECURSIVE SumOver(_, _, _)
SumOver(sheet, rows, weighted) ==
    IF rows = {}
    THEN 0
    ELSE LET l == CHOOSE r \in rows : TRUE
         IN  sheet[<<"A", l>>].n
                * (IF weighted THEN PositionOfMark(sheet, l) ELSE 1)
             + SumOver(sheet, rows \ {l}, weighted)

\* C20: the average of a competency group is the sum of value times weight
\* over the rows that have a mark and a positive weight, divided by the sum
\* of the weights of those rows, the value of a row being the position of its
\* marked column; it is 0 when no row contributes.
C20_GroupAverage ==
    NoteCalculated =>
        \A g \in DOMAIN LignesConfig(reponse.semestre).lignes :
            LET sheet == FeuilleLue
                ls == LignesConfig(reponse.semestre).lignes[g]
                rows == Contributing(sheet, ls)
                m == CalculerMoyenneCompetence(sheet, ls)
            IN  IF rows = {}
                THEN m.num = 0
                ELSE m.num * SumOver(sheet, rows, FALSE)
                        = SumOver(sheet, rows, TRUE) * m.den

\* a score was calculated from a group with a contributing row of weight 2
\* at level 3, one of weight 1 at level 0, and so an average of 2
C20_Witness ==
    /\ NoteCalculated
    /\ reponse.semestre = "stage"
    /\ LET sheet == FeuilleLue
           ls == LignesConfig("stage").lignes["c01"]
           m == CalculerMoyenneCompetence(sheet, ls)
       IN  /\ sheet[<<"F", 21>>] = Str("x") /\ sheet[<<"A", 21>>] = Num(2)
           /\ sheet[<<"C", 22>>] = Str("x") /\ sheet[<<"A", 22>>] = Num(1)
           /\ Cardinality(Contributing(sheet, ls)) = 2
           /\ m.num = 2 * m.den

\* the number in cell a, 0 for a cell without one
NumberOrZero(sheet, a) == IF sheet[a].k = "number" THEN sheet[a].n ELSE 0

\* sum over the groups gs of group average times group weight, as a fraction
RECURSIVE WeightedAverages(_, _, _)
WeightedAverages(sheet, config, gs) ==
    IF gs = {}
    THEN [num |-> 0, den |-> 1]
    ELSE LET g == CHOOSE x \in gs : TRUE
             rows == Contributing(sheet, config.lignes[g])
             p == NumberOrZero(sheet, config.poids[g])
             rest == WeightedAverages(sheet, config, gs \ {g})
         IN  IF rows = {}
             THEN rest
             ELSE LET w == SumOver(sheet, rows, FALSE)
                  IN  [num |-> SumOver(sheet, rows, TRUE) * p * rest.den
                                    + rest.num * w,
                       den |-> w * rest.den]

\* n hundredths is the fraction x of hundredths rounded to the nearest
\* integer, a half rounding upwards
RoundsTo(x, n) ==
    /\ 2 * n * x.den <= 2 * x.num + x.den
    /\ 2 * x.num + x.den < 2 * (n + 1) * x.den

\* C21: the calculated score is (sum over the groups of group average times
\* group weight) times 20/3 plus the bonus, rounded to 2 decimal places, a
\* missing group weight or bonus cell counting as 0.
C21_FinalScoreFormula ==
    NoteCalculated =>
        LET sheet == FeuilleLue
            config == LignesConfig(reponse.semestre)
            t == WeightedAverages(sheet, config, DOMAIN config.lignes)
            bonus == NumberOrZero(sheet, CelluleBonusCalcul)
        IN  RoundsTo([num |-> t.num * 20 * 100 + bonus * 100 * 3 * t.den,
                      den |-> 3 * t.den],
                     reponse.note_calculee.n)

\* four groups of averages 2, 2, 3 and 1 with weight 1 each and a bonus of 1:
\* 8 * 20/3 + 1 = 54.33
C21_Witness ==
    /\ NoteCalculated
    /\ reponse.semestre = "stage"
    /\ LET sheet == FeuilleLue
           config == LignesConfig("stage")
           m == CalculerMoyenneCompetence(sheet, config.lignes["c01"])
       IN  /\ m.num = 2 * m.den
           /\ \A g \in DOMAIN config.poids : sheet[config.poids[g]] = Num(1)
           /\ sheet[CelluleBonusCalcul] = Num(1)
    /\ reponse.note_calculee = Centiemes(5433)

\* the read has answered without an error
NoteRead == reponse.route = "note-calculee" /\ reponse.status = 200

\* C22: the read returns the value stored in the configured cell when one is
\* present and otherwise the calculator's result, and the note_calculee
\* field of the answer is a number or null (null when the output file, the
\* calculated score mapping or the sheet is absent).
C22_ReadNumberOrNull ==
    NoteRead =>
        LET semestre == reponse.semestre
            champsSupp == mapping.champs_supplementaires
            absent == \/ classeur = NoClasseur
                      \/ semestre \notin DOMAIN champsSupp
                      \/ mapping.sheetNames[semestre] \notin DOMAIN classeur
        IN  /\ reponse.note_calculee.k \in {"number", "centiemes", "null"}
            /\ absent => reponse.note_calculee = Null
            /\ ~absent =>
                LET stored == FeuilleLue[champsSupp[semestre]["note_calculee"]]
                IN  IF stored # Undefined
                    THEN reponse.note_calculee = stored
                    ELSE reponse.note_calculee.k = "centiemes"

(* Properties of the start *)

C24_JuryIsolation ==
    [][(session' = session /\ session.role = "jury"
            /\ (eleve' # eleve \/ classeur' # classeur))
        => (reponse'.semestre = "soutenance" /\ eleve.jury = session.juryId)]_vars

\* the groups of phase semestre that the calculator counts
GroupesComptes(semestre) ==
    IF semestre = "revue1" THEN {"c01", "c03"} ELSE {"c01", "c03", "c08", "c10"}

\* C25: for revue1 only the first two groups contribute, whatever the rows
\* and weight cells of groups 3 and 4 hold; for stage, revue2, revue3 and
\* soutenance all four groups contribute with the rows and weight cells of
\* that phase; the level columns of the mapping change nothing.
C25_PhaseLayouts ==
    NoteCalculated =>
        LET sheet == FeuilleLue
            d == Disposition(reponse.semestre)
            t == WeightedAverages(sheet, d, GroupesComptes(reponse.semestre))
            bonus == NumberOrZero(sheet, CelluleBonusCalcul)
        IN  RoundsTo([num |-> t.num * 20 * 100 + bonus * 100 * 3 * t.den,
                      den |-> 3 * t.den],
                     reponse.note_calculee.n)

\* a score of revue1 calculated from a sheet whose groups 3 and 4 hold marks
\* and weights, with a mapping whose level columns are D to G
C25_Witness ==
    /\ NoteCalculated
    /\ reponse.semestre = "revue1"
    /\ mapping.niveaux = NiveauxDG
    /\ LET sheet == FeuilleLue
           d == Disposition("revue1")
       IN  /\ \A g \in {"c08", "c10"} :
                /\ Contributing(sheet, d.lignes[g]) # {}
                /\ sheet[d.poids[g]] = Num(1)
           /\ Contributing(sheet, d.lignes["c01"]) # {}

(* Properties of the gate and the student store *)

\* C26: the global counter equals the number of entries of the lock table,
\* and both equal the number of requests that have completed acquire and not
\* yet released.
C26_CounterTableAgreement ==
    /\ activeExcelOperations = Cardinality(excelLocks)
    /\ activeExcelOperations = Cardinality({r \in Reqs : InFlight(r)})

\* C27: a fill that has passed the gate writes the student's evaluation
\* record as stored at the moment it took the lock, also when the record
\* was saved again while the request waited.
C27_NoStaleWrite ==
    [][\A r \in Clients :
        (req[r].pc = "loading" /\ req'[r].pc = "idle" /\ reponse'.status = 200)
            => classeur' =
                [classeur EXCEPT ![mapping.sheetNames[req[r].semestre]] =
                    RemplirFeuille(@, req[r].semestre, req[r].stored)]]_vars

\* C28: saves of different students, or of different phases of one student,
\* lose nothing: the store holds the record of the last save that was
\* answered with success to each client.
C28_NoLostUpdate ==
    \A r \in Clients :
        req[r].last # NoSave =>
            /\ req[r].last.semestre \in DOMAIN eleves[req[r].last.id].evaluations
            /\ eleves[req[r].last.id].evaluations[req[r].last.semestre]
                    = req[r].last.data

\* C29: every call of acquireExcelLock ends: a request that waits in one of
\* the two loops later holds the lock or has thrown the timeout error.
C29_AcquireTerminates ==
    \A r \in Duo : Waiting(r) ~> ~Waiting(r)

\* a request has waited for more than LOCK_TIMEOUT behind a lock that no
\* request in flight holds any more, while the gate is saturated by such
\* locks
C29_Witness ==
    \E r \in Reqs :
        /\ req[r].pc = "waitFile"
        /\ req[r].sinceFileStart > LOCK_TIMEOUT
        /\ FileLocked(excelLocks, req[r].outputFileName)
        /\ \A q \in Reqs : ~InFlight(q)
        /\ GlobalSaturated(activeExcelOperations)

(* Properties of the evaluation-period lock *)

\* the jury of client r
JuryOf(r) == SessionOf(r).juryId.s

\* the write of a lock request of client r succeeds in this step
LockWritten(r) ==
    req[r].pc = "writing" /\ req'[r].pc = "idle" /\ reponse'.status = 200

\* C30: while the last operation answered to a jury is its unlock, that jury
\* is not in its lock period; set leaves unlockedEarly false, disable leaves
\* the entry unlocked; and an operation of one jury leaves the entry of the
\* other jury as it is.
C30_EvaluationPeriodLock ==
    /\ [](\A r \in {1, 2} :
            req[r].last = "unlock"
                => ~IsInLockPeriod(lockFile, JuryOf(r), horloge))
    /\ [][\A r \in {1, 2} :
            LockWritten(r) =>
                /\ req[r].op = "set" => ~lockFile'[JuryOf(r)].unlockedEarly
                /\ req[r].op = "disable" => lockFile'[JuryOf(r)] = Unlocked
                /\ \A j \in DOMAIN lockFile \ {JuryOf(r)} :
                        lockFile'[j] = lockFile[j]]_vars

====
